---- MODULE Spec2Model ----
\* Model of VkRenderer (app/src/main/cpp/VkRenderer.cpp): the constructor that
\* acquires the Vulkan handles, the destructor that releases them, and render(),
\* together with the part of the driver/GPU the calls act upon (fence, semaphore,
\* command buffer state, queue).
EXTENDS Integers, Sequences, FiniteSets, TLC

\* ------------------------------------------------------------------ bounds
MaxImages == 2      \* largest swapchain image count the driver returns
MaxFrames == 2      \* render() calls made before the renderer is destroyed
MaxSwitches == 1      \* context switches between two threads
MaxFamilies == 2    \* most queue families the physical device reports
MaxFormats == 2     \* most surface formats the surface reports
MaxPresentModes == 2  \* most present modes the surface reports

\* --------------------------------------------------------------- constants
ClearStep == 1      \* 0.01, in hundredths
ClearOne == 100     \* 1.0, in hundredths
ClearChannels == 4
DrawVertexCount == 3
DrawInstanceCount == 1
\* values a channel of mClearValue may hold when the renderer is constructed, in
\* hundredths; the member initialiser is in VkRenderer.h, so the channels range
\* over both ends of [0,1)
ClearInit == {0, 99}

AlphaLoopLast == 4  \* for (auto i = 0; i <= 4; ++i)
VK_COMPOSITE_ALPHA_FLAG_BITS_MAX_ENUM_KHR == 2147483647
VK_FORMAT_MAX_ENUM == 2147483647
VK_PRESENT_MODE_MAX_ENUM_KHR == 2147483647
InstanceExtensionsNeeded == 2   \* assert(instanceExtensionNames.size() == 2)
DeviceExtensionsNeeded == 1     \* assert(deviceExtensionNames.size() == 1)

VK_FORMAT_R8G8B8A8_UNORM == "VK_FORMAT_R8G8B8A8_UNORM"
VK_FORMAT_B8G8R8A8_UNORM == "VK_FORMAT_B8G8R8A8_UNORM"
VK_PRESENT_MODE_FIFO_KHR == "VK_PRESENT_MODE_FIFO_KHR"
VK_PRESENT_MODE_MAILBOX_KHR == "VK_PRESENT_MODE_MAILBOX_KHR"
VK_IMAGE_USAGE_COLOR_ATTACHMENT_BIT == "VK_IMAGE_USAGE_COLOR_ATTACHMENT_BIT"
VK_IMAGE_USAGE_TRANSFER_DST_BIT == "VK_IMAGE_USAGE_TRANSFER_DST_BIT"
\* what a read outside an array may yield: any format, any present mode
Indeterminate == "indeterminate"
Formats == {VK_FORMAT_R8G8B8A8_UNORM, VK_FORMAT_B8G8R8A8_UNORM}
PresentModes == {VK_PRESENT_MODE_FIFO_KHR, VK_PRESENT_MODE_MAILBOX_KHR}
Builds == {"debug", "release"}

VK_SUCCESS == "VK_SUCCESS"
VK_ERROR == "VK_ERROR"
VkResult == {VK_SUCCESS, VK_ERROR}

\* ----------------------------------------------------------------- handles
H(kind, n) == <<kind, n>>
VK_NULL_HANDLE == H("VK_NULL_HANDLE", 0)
hInstance == H("mInstance", 0)
hPhysicalDevice == H("mPhysicalDevice", 0)
hDevice == H("mDevice", 0)
hQueue == H("mQueue", 0)
hSurface == H("mSurface", 0)
hSwapchain == H("mSwapchain", 0)
hImage(n) == H("mSwapchainImages", n)
hImageView(n) == H("mSwapchainImageViews", n)
hCommandPool == H("mCommandPool", 0)
hCommandBuffer == H("mCommandBuffer", 0)
hFence == H("mFence", 0)
hSemaphore == H("mSemaphore", 0)
hRenderPass == H("mRenderPass", 0)
hFramebuffer(n) == H("mFramebuffers", n)
hVertexShaderModule == H("mVertexShaderModule", 0)
hFragmentShaderModule == H("mFragmentShaderModule", 0)
hPipelineLayout == H("mPipelineLayout", 0)
hPipeline == H("mPipeline", 0)
hVertexBuffer == H("mVertexBuffer", 0)

VARIABLES
    pc,                   \* "ctor", "ready", "render", "dtor", "done", "aborted"
    ip,                   \* index of the next statement of the running function
    i,                    \* loop index of the running for loop
    swapchainImageCount,  \* constructor local
    mSwapchainImages, mSwapchainImageViews, mFramebuffers,
    mClearValue,          \* four channels, in hundredths
    calls,                \* handle-producing calls the constructor issued, in order
    alive,                \* handles created and not destroyed
    destroyed,            \* handles the destructor released, in order
    fence, semaphore,     \* "unsignaled", "pending" (signal queued), "signaled"
    cmdState,             \* "initial", "recording", "executable", "pending", "invalid"
    pendingSubmits, pendingPresents,   \* queue operations not yet executed
    swapchainImageIndex, framebuffer,  \* render() locals
    ops,                  \* operations issued by the current render() call
    frames, nAcquire, nSubmit, nPresent,
    build,                \* "debug" (assert active) or "release" (NDEBUG)
    env,                  \* what the loader, the device and the surface report
    mSwapchainImageExtent,
    mClearValue0,         \* the value of mClearValue when the constructor was entered
    mQueueFamilyIndex,
    compositeAlpha, surfaceFormatIndex, presentModeIndex,   \* constructor locals
    uses,                 \* values the constructor handed to Vulkan, in order
    abortCause,           \* "none", "vk_error", "assert", "crash"
    other                 \* a second thread using the renderer, while it is not running

vars == <<pc, ip, i, swapchainImageCount, mSwapchainImages, mSwapchainImageViews,
          mFramebuffers, mClearValue, calls, alive, destroyed, fence, semaphore,
          cmdState, pendingSubmits, pendingPresents, swapchainImageIndex,
          framebuffer, ops, frames, nAcquire, nSubmit, nPresent, build, env,
          mSwapchainImageExtent, mQueueFamilyIndex, compositeAlpha,
          surfaceFormatIndex, presentModeIndex, uses, abortCause, other,
          mClearValue0>>

ctorVars == <<swapchainImageCount, mSwapchainImages, mSwapchainImageViews,
              mFramebuffers, calls>>
envVars == <<build, env, mSwapchainImageExtent, mClearValue0>>
selVars == <<mQueueFamilyIndex, compositeAlpha, surfaceFormatIndex, presentModeIndex>>
gpuVars == <<fence, semaphore, cmdState, pendingSubmits, pendingPresents>>
renderVars == <<swapchainImageIndex, framebuffer, ops, mClearValue,
                nAcquire, nSubmit, nPresent>>

\* ---------------------------------------------------- statement sequences
\* the command buffer allocated before its pool is created
CtorOrder_BufferBeforePool ==
    << "vkEnumerateInstanceExtensionProperties", "vkCreateInstance",
       "vkEnumeratePhysicalDevices", "vkGetPhysicalDeviceQueueFamilyProperties",
       "vkEnumerateDeviceExtensionProperties", "vkCreateDevice",
       "vkGetDeviceQueue", "vkCreateAndroidSurfaceKHR",
       "vkGetPhysicalDeviceSurfaceSupportKHR",
       "vkGetPhysicalDeviceSurfaceCapabilitiesKHR",
       "vkGetPhysicalDeviceSurfaceFormatsKHR",
       "vkGetPhysicalDeviceSurfacePresentModesKHR", "vkCreateSwapchainKHR",
       "vkGetSwapchainImagesKHR", "for_vkCreateImageView", "vkCreateImageView",
       "vkAllocateCommandBuffers", "vkCreateCommandPool", "vkCreateFence",
       "vkCreateSemaphore", "vkCreateRenderPass",
       "for_vkCreateFramebuffer", "vkCreateFramebuffer",
       "vkCreateShaderModule_vertex", "vkCreateShaderModule_fragment",
       "vkCreatePipelineLayout", "vkCreateGraphicsPipelines", "vkCreateBuffer" >>

CtorOrder ==
    << "vkEnumerateInstanceExtensionProperties", "vkCreateInstance",
       "vkEnumeratePhysicalDevices", "vkGetPhysicalDeviceQueueFamilyProperties",
       "vkEnumerateDeviceExtensionProperties", "vkCreateDevice",
       "vkGetDeviceQueue", "vkCreateAndroidSurfaceKHR",
       "vkGetPhysicalDeviceSurfaceSupportKHR",
       "vkGetPhysicalDeviceSurfaceCapabilitiesKHR",
       "vkGetPhysicalDeviceSurfaceFormatsKHR",
       "vkGetPhysicalDeviceSurfacePresentModesKHR", "vkCreateSwapchainKHR",
       "vkGetSwapchainImagesKHR", "for_vkCreateImageView", "vkCreateImageView",
       "vkCreateCommandPool", "vkAllocateCommandBuffers", "vkCreateFence",
       "vkCreateSemaphore", "vkCreateRenderPass",
       "for_vkCreateFramebuffer", "vkCreateFramebuffer",
       "vkCreateShaderModule_vertex", "vkCreateShaderModule_fragment",
       "vkCreatePipelineLayout", "vkCreateGraphicsPipelines", "vkCreateBuffer" >>

\* the fence is never destroyed
DtorOrder_FenceLeaked ==
    << "vkDestroyBuffer", "vkDestroyPipelineLayout", "vkDestroyPipeline",
       "vkDestroyShaderModule_vertex", "vkDestroyShaderModule_fragment",
       "for_vkDestroyFramebuffer", "vkDestroyFramebuffer", "mFramebuffers_clear",
       "vkDestroyRenderPass",
       "for_vkDestroyImageView", "vkDestroyImageView", "mSwapchainImageViews_clear",
       "vkDestroySemaphore", "vkFreeCommandBuffers",
       "vkDestroyCommandPool", "vkDestroySwapchainKHR", "vkDestroySurfaceKHR",
       "vkDestroyDevice", "vkDestroyInstance" >>

\* the device destroyed before the swapchain and the surface
DtorOrder_DeviceEarly ==
    << "vkDestroyBuffer", "vkDestroyPipelineLayout", "vkDestroyPipeline",
       "vkDestroyShaderModule_vertex", "vkDestroyShaderModule_fragment",
       "for_vkDestroyFramebuffer", "vkDestroyFramebuffer", "mFramebuffers_clear",
       "vkDestroyRenderPass",
       "for_vkDestroyImageView", "vkDestroyImageView", "mSwapchainImageViews_clear",
       "vkDestroySemaphore", "vkDestroyFence", "vkFreeCommandBuffers",
       "vkDestroyCommandPool", "vkDestroyDevice", "vkDestroySwapchainKHR",
       "vkDestroySurfaceKHR", "vkDestroyInstance" >>

DtorOrder ==
    << "vkDestroyBuffer", "vkDestroyPipelineLayout", "vkDestroyPipeline",
       "vkDestroyShaderModule_vertex", "vkDestroyShaderModule_fragment",
       "for_vkDestroyFramebuffer", "vkDestroyFramebuffer", "mFramebuffers_clear",
       "vkDestroyRenderPass",
       "for_vkDestroyImageView", "vkDestroyImageView", "mSwapchainImageViews_clear",
       "vkDestroySemaphore", "vkDestroyFence", "vkFreeCommandBuffers",
       "vkDestroyCommandPool", "vkDestroySwapchainKHR", "vkDestroySurfaceKHR",
       "vkDestroyDevice", "vkDestroyInstance" >>

\* the draw recorded before the pipeline is bound
RenderOrder_DrawBeforeBind ==
    << "vkAcquireNextImageKHR", "framebuffer_assign", "vkWaitForFences",
       "vkResetFences", "vkResetCommandBuffer", "vkBeginCommandBuffer",
       "vkCmdBeginRenderPass", "vkCmdDraw", "vkCmdBindPipeline",
       "vkCmdEndRenderPass", "mClearValue_update", "vkEndCommandBuffer",
       "vkQueueSubmit", "vkQueuePresentKHR", "vkQueueWaitIdle" >>

\* the clear colour advanced before the render pass is begun
RenderOrder_UpdateBeforeBegin ==
    << "vkAcquireNextImageKHR", "framebuffer_assign", "vkWaitForFences",
       "vkResetFences", "vkResetCommandBuffer", "vkBeginCommandBuffer",
       "mClearValue_update", "vkCmdBeginRenderPass", "vkCmdBindPipeline",
       "vkCmdDraw", "vkCmdEndRenderPass", "vkEndCommandBuffer",
       "vkQueueSubmit", "vkQueuePresentKHR", "vkQueueWaitIdle" >>

\* the clear colour advanced at the end of the frame
RenderOrder_UpdateLast ==
    << "vkAcquireNextImageKHR", "framebuffer_assign", "vkWaitForFences",
       "vkResetFences", "vkResetCommandBuffer", "vkBeginCommandBuffer",
       "vkCmdBeginRenderPass", "vkCmdBindPipeline", "vkCmdDraw",
       "vkCmdEndRenderPass", "vkEndCommandBuffer",
       "vkQueueSubmit", "vkQueuePresentKHR", "vkQueueWaitIdle",
       "mClearValue_update" >>

\* the fence waited for before the acquisition that signals it
RenderOrder_WaitBeforeAcquire ==
    << "vkWaitForFences", "vkAcquireNextImageKHR", "framebuffer_assign",
       "vkResetFences", "vkResetCommandBuffer", "vkBeginCommandBuffer",
       "vkCmdBeginRenderPass", "vkCmdBindPipeline", "vkCmdDraw",
       "vkCmdEndRenderPass", "mClearValue_update", "vkEndCommandBuffer",
       "vkQueueSubmit", "vkQueuePresentKHR", "vkQueueWaitIdle" >>

\* the fence reset before it is waited for
RenderOrder_ResetBeforeWait ==
    << "vkAcquireNextImageKHR", "framebuffer_assign", "vkResetFences",
       "vkWaitForFences", "vkResetCommandBuffer", "vkBeginCommandBuffer",
       "vkCmdBeginRenderPass", "vkCmdBindPipeline", "vkCmdDraw",
       "vkCmdEndRenderPass", "mClearValue_update", "vkEndCommandBuffer",
       "vkQueueSubmit", "vkQueuePresentKHR", "vkQueueWaitIdle" >>

RenderOrder ==
    << "vkAcquireNextImageKHR", "framebuffer_assign", "vkWaitForFences",
       "vkResetFences", "vkResetCommandBuffer", "vkBeginCommandBuffer",
       "vkCmdBeginRenderPass", "vkCmdBindPipeline", "vkCmdDraw",
       "vkCmdEndRenderPass", "mClearValue_update", "vkEndCommandBuffer",
       "vkQueueSubmit", "vkQueuePresentKHR", "vkQueueWaitIdle" >>

Order(p) ==
    CASE p = "ctor" -> CtorOrder
      [] p = "dtor" -> DtorOrder
      [] p = "render" -> RenderOrder
      [] OTHER -> << >>

\* control is at statement `label` of function p
At(p, label) == pc = p /\ ip \in 1..Len(Order(p)) /\ Order(p)[ip] = label

Goto(n) == pc' = pc /\ ip' = n /\ abortCause' = abortCause

\* the process ends at the current statement
Abort(cause) == pc' = "aborted" /\ ip' = ip /\ abortCause' = cause

\* VK_CHECK_ERROR: continue at statement n on VK_SUCCESS, abort the process otherwise
VK_CHECK_ERROR(result, n) ==
    IF result = VK_SUCCESS THEN Goto(n) ELSE Abort("vk_error")

\* ------------------------------------------------------------ environment
SeqsUpTo(S, n) == UNION {[1..m -> S] : m \in 0..n}

\* an environment in which every capability the constructor needs is present
NominalEnv ==
    [ instanceExtensions |-> {"VK_KHR_surface", "VK_KHR_android_surface"},
      queueFlags |-> <<TRUE>>,        \* per family: VK_QUEUE_GRAPHICS_BIT set
      deviceExtensions |-> {"VK_KHR_swapchain"},
      surfaceSupported |-> TRUE,
      supportedCompositeAlpha |-> {0},   \* the bits set in the mask
      supportedUsageFlags |-> {VK_IMAGE_USAGE_COLOR_ATTACHMENT_BIT,
                               VK_IMAGE_USAGE_TRANSFER_DST_BIT},
      formats |-> <<VK_FORMAT_R8G8B8A8_UNORM>>,
      presentModes |-> <<VK_PRESENT_MODE_FIFO_KHR>>,
      currentExtent |-> <<1080, 1920>> ]

\* the environments of the whole life cycle: everything needed is present
LifeEnvs ==
    { NominalEnv,
      [NominalEnv EXCEPT !.queueFlags = <<FALSE, TRUE>>,
                         !.supportedCompositeAlpha = {1, 3},
                         !.formats = <<VK_FORMAT_B8G8R8A8_UNORM,
                                       VK_FORMAT_R8G8B8A8_UNORM>>,
                         !.presentModes = <<VK_PRESENT_MODE_MAILBOX_KHR,
                                            VK_PRESENT_MODE_FIFO_KHR>>] }

\* the environments of the constructor: the nominal one with one report varied
\* over all its values (the formats and the present modes together)
CtorEnvs ==
    {[NominalEnv EXCEPT !.queueFlags = v] :
         v \in SeqsUpTo(BOOLEAN, MaxFamilies) \ {<< >>}}
    \cup {[NominalEnv EXCEPT !.formats = f, !.presentModes = m] :
              f \in SeqsUpTo(Formats, MaxFormats),
              m \in SeqsUpTo(PresentModes, MaxPresentModes)}
    \cup {[NominalEnv EXCEPT !.supportedCompositeAlpha = v] : v \in SUBSET (0..5)}
    \cup {[NominalEnv EXCEPT !.supportedUsageFlags = v] :
              v \in SUBSET {VK_IMAGE_USAGE_COLOR_ATTACHMENT_BIT,
                            VK_IMAGE_USAGE_TRANSFER_DST_BIT}}
    \cup {[NominalEnv EXCEPT !.surfaceSupported = v] : v \in BOOLEAN}
    \cup {[NominalEnv EXCEPT !.instanceExtensions = v] :
              v \in SUBSET {"VK_KHR_surface", "VK_KHR_android_surface"}}
    \cup {[NominalEnv EXCEPT !.deviceExtensions = v] : v \in SUBSET {"VK_KHR_swapchain"}}
    \cup {[NominalEnv EXCEPT !.currentExtent = v] : v \in {<<1080, 1920>>, <<720, 1280>>}}

\* mSwapchainImageExtent is assigned nowhere in VkRenderer.cpp: it holds what
\* its declaration in VkRenderer.h leaves in it
ExtentInit == {<<0, 0>>, <<1080, 1920>>}

\* what a thread keeps to itself: its position and the locals of render()
Thread(tpc, tip, index, fb, n) ==
    [pc |-> tpc, ip |-> tip, swapchainImageIndex |-> index, framebuffer |-> fb,
     switches |-> n]

\* the renderer is used by one thread only
NoThread == Thread("none", 1, 0, VK_NULL_HANDLE, 0)

\* the state of a renderer whose constructor has just been entered
InitState ==
    /\ pc = "ctor" /\ ip = 1 /\ i = 0
    /\ swapchainImageCount = 0
    /\ mSwapchainImages = << >> /\ mSwapchainImageViews = << >> /\ mFramebuffers = << >>
    /\ calls = << >> /\ alive = {} /\ destroyed = << >>
    /\ fence = "none" /\ semaphore = "none" /\ cmdState = "none"
    /\ pendingSubmits = 0 /\ pendingPresents = 0
    /\ swapchainImageIndex = 0 /\ framebuffer = VK_NULL_HANDLE
    /\ ops = << >>
    /\ frames = 0 /\ nAcquire = 0 /\ nSubmit = 0 /\ nPresent = 0
    /\ mQueueFamilyIndex = 0
    /\ compositeAlpha = 0 /\ surfaceFormatIndex = 0 /\ presentModeIndex = 0
    /\ uses = << >>
    /\ abortCause = "none"

Init ==
    /\ InitState
    /\ mClearValue \in [1..ClearChannels -> ClearInit]
    /\ mClearValue0 = mClearValue
    /\ build \in Builds
    /\ env \in LifeEnvs
    /\ other = NoThread
    /\ mSwapchainImageExtent \in ExtentInit

\* the constructor alone, over every environment
InitCtor ==
    /\ InitState
    /\ mClearValue = [c \in 1..ClearChannels |-> 0]
    /\ mClearValue0 = mClearValue
    /\ build \in Builds
    /\ env \in CtorEnvs
    /\ other = NoThread
    /\ mSwapchainImageExtent \in ExtentInit

\* ------------------------------------------------------------- constructor
\* the record of one handle-producing call
Call(fn, h, args, result, owned) ==
    [fn |-> fn, h |-> h, args |-> args, result |-> result, owned |-> owned]

\* the record of one value handed to Vulkan
Use(what, val) == [what |-> what, val |-> val]

\* an assertion that is active in every build
assert_Active(cond, n) == IF ~cond THEN Abort("assert") ELSE Goto(n)

\* assert(cond): aborts in a debug build, compiled out under NDEBUG
assert(cond, n) ==
    IF build = "debug" /\ ~cond THEN Abort("assert") ELSE Goto(n)

\* a creation call whose result is dropped
Create_Unchecked(label, h, args, n) ==
    /\ At("ctor", label)
    /\ \E result \in VkResult :
          /\ calls' = Append(calls, Call(label, h, args, result, TRUE))
          /\ alive' = IF result = VK_SUCCESS THEN alive \cup {h} ELSE alive
          /\ Goto(n)

\* a checked vkCreate*/vkAllocate* call at statement `label` producing the owned
\* handle h from the handles args; control continues at n
Create(label, h, args, n) ==
    /\ At("ctor", label)
    /\ \E result \in VkResult :
          /\ calls' = Append(calls, Call(label, h, args, result, TRUE))
          /\ alive' = IF result = VK_SUCCESS THEN alive \cup {h} ELSE alive
          /\ VK_CHECK_ERROR(result, n)

\* vkEnumerateInstanceExtensionProperties, the filter for VK_KHR_surface and
\* VK_KHR_android_surface, and assert(instanceExtensionNames.size() == 2)
EnumerateInstanceExtensionProperties ==
    /\ At("ctor", "vkEnumerateInstanceExtensionProperties")
    /\ \E result \in VkResult :
          LET instanceExtensionNames ==
                  env.instanceExtensions \cap {"VK_KHR_surface", "VK_KHR_android_surface"}
          IN IF result = VK_SUCCESS
                THEN assert(Cardinality(instanceExtensionNames) = InstanceExtensionsNeeded,
                            ip + 1)
                ELSE VK_CHECK_ERROR(result, ip + 1)
    /\ UNCHANGED <<i, ctorVars, alive, destroyed, gpuVars, renderVars, frames,
                   envVars, other, selVars, uses>>

CreateInstance ==
    /\ Create("vkCreateInstance", hInstance, {}, ip + 1)
    /\ UNCHANGED <<i, swapchainImageCount, mSwapchainImages, mSwapchainImageViews,
                   mFramebuffers, destroyed, gpuVars, renderVars, frames>>
    /\ UNCHANGED <<envVars, other, selVars, uses>>

\* vkEnumeratePhysicalDevices and mPhysicalDevice = physicalDevices[0]
EnumeratePhysicalDevices ==
    /\ At("ctor", "vkEnumeratePhysicalDevices")
    /\ \E result \in VkResult :
          /\ calls' = Append(calls, Call("vkEnumeratePhysicalDevices", hPhysicalDevice,
                                         {hInstance}, result, FALSE))
          /\ VK_CHECK_ERROR(result, ip + 1)
    /\ UNCHANGED <<i, swapchainImageCount, mSwapchainImages, mSwapchainImageViews,
                   mFramebuffers, alive, destroyed, gpuVars, renderVars, frames>>
    /\ UNCHANGED <<envVars, other, selVars, uses>>

\* the loop without its break: the index runs to the end
QueueFamilySearch_NoBreak(queueFlags, k) == Len(queueFlags)

\* for (mQueueFamilyIndex = k; mQueueFamilyIndex != count; ++mQueueFamilyIndex)
\*     if (queueFamilyProperties[mQueueFamilyIndex].queueFlags & GRAPHICS) break;
RECURSIVE QueueFamilySearch(_, _)
QueueFamilySearch(queueFlags, k) ==
    IF k = Len(queueFlags) THEN k
    ELSE IF queueFlags[k + 1] THEN k
    ELSE QueueFamilySearch(queueFlags, k + 1)

\* vkGetPhysicalDeviceQueueFamilyProperties (no result) and the search
GetPhysicalDeviceQueueFamilyProperties ==
    /\ At("ctor", "vkGetPhysicalDeviceQueueFamilyProperties")
    /\ mQueueFamilyIndex' = QueueFamilySearch(env.queueFlags, 0)
    /\ Goto(ip + 1)
    /\ UNCHANGED <<i, ctorVars, alive, destroyed, gpuVars, renderVars, frames,
                   envVars, other, compositeAlpha, surfaceFormatIndex, presentModeIndex, uses>>

\* vkEnumerateDeviceExtensionProperties, the filter for VK_KHR_swapchain, and
\* assert(deviceExtensionNames.size() == 1)
EnumerateDeviceExtensionProperties ==
    /\ At("ctor", "vkEnumerateDeviceExtensionProperties")
    /\ \E result \in VkResult :
          LET deviceExtensionNames == env.deviceExtensions \cap {"VK_KHR_swapchain"}
          IN IF result = VK_SUCCESS
                THEN assert(Cardinality(deviceExtensionNames) = DeviceExtensionsNeeded,
                            ip + 1)
                ELSE VK_CHECK_ERROR(result, ip + 1)
    /\ UNCHANGED <<i, ctorVars, alive, destroyed, gpuVars, renderVars, frames,
                   envVars, other, selVars, uses>>

CreateDevice ==
    /\ Create("vkCreateDevice", hDevice, {hPhysicalDevice}, ip + 1)
    /\ UNCHANGED <<i, swapchainImageCount, mSwapchainImages, mSwapchainImageViews,
                   mFramebuffers, destroyed, gpuVars, renderVars, frames>>
    /\ uses' = Append(uses, Use("vkCreateDevice.queueFamilyIndex", mQueueFamilyIndex))
    /\ UNCHANGED <<envVars, other, selVars>>

\* vkGetDeviceQueue returns no result
GetDeviceQueue ==
    /\ At("ctor", "vkGetDeviceQueue")
    /\ calls' = Append(calls, Call("vkGetDeviceQueue", hQueue, {hDevice}, VK_SUCCESS, FALSE))
    /\ Goto(ip + 1)
    /\ UNCHANGED <<i, swapchainImageCount, mSwapchainImages, mSwapchainImageViews,
                   mFramebuffers, alive, destroyed, gpuVars, renderVars, frames>>
    /\ uses' = Append(uses, Use("vkGetDeviceQueue.queueFamilyIndex", mQueueFamilyIndex))
    /\ UNCHANGED <<envVars, other, selVars>>

CreateAndroidSurfaceKHR ==
    /\ Create("vkCreateAndroidSurfaceKHR", hSurface, {hInstance}, ip + 1)
    /\ UNCHANGED <<i, swapchainImageCount, mSwapchainImages, mSwapchainImageViews,
                   mFramebuffers, destroyed, gpuVars, renderVars, frames>>
    /\ UNCHANGED <<envVars, other, selVars, uses>>

\* vkGetPhysicalDeviceSurfaceSupportKHR(mPhysicalDevice, mQueueFamilyIndex,
\* mSurface, &supported) and assert(supported)
GetPhysicalDeviceSurfaceSupportKHR ==
    /\ At("ctor", "vkGetPhysicalDeviceSurfaceSupportKHR")
    /\ uses' = Append(uses, Use("vkGetPhysicalDeviceSurfaceSupportKHR.queueFamilyIndex",
                                mQueueFamilyIndex))
    /\ \E result \in VkResult :
          IF result = VK_SUCCESS
             THEN assert(env.surfaceSupported, ip + 1)
             ELSE VK_CHECK_ERROR(result, ip + 1)
    /\ UNCHANGED <<i, ctorVars, alive, destroyed, gpuVars, renderVars, frames,
                   envVars, other, selVars>>

\* for (auto i = k; i <= 4; ++i)
\*     if (flag = 0x1u << i; supportedCompositeAlpha & flag) { compositeAlpha = flag; break; }
RECURSIVE CompositeAlphaSearch(_, _)
CompositeAlphaSearch(supportedCompositeAlpha, k) ==
    IF k > AlphaLoopLast THEN VK_COMPOSITE_ALPHA_FLAG_BITS_MAX_ENUM_KHR
    ELSE IF k \in supportedCompositeAlpha THEN 2 ^ k
    ELSE CompositeAlphaSearch(supportedCompositeAlpha, k + 1)

\* swapchainImageUsage
SwapchainImageUsage ==
    {VK_IMAGE_USAGE_COLOR_ATTACHMENT_BIT, VK_IMAGE_USAGE_TRANSFER_DST_BIT}

\* vkGetPhysicalDeviceSurfaceCapabilitiesKHR, the composite alpha search with its
\* assert, and assert(supportedUsageFlags & VK_IMAGE_USAGE_COLOR_ATTACHMENT_BIT)
GetPhysicalDeviceSurfaceCapabilitiesKHR ==
    /\ At("ctor", "vkGetPhysicalDeviceSurfaceCapabilitiesKHR")
    /\ \E result \in VkResult :
          IF result = VK_SUCCESS
             THEN LET alpha == CompositeAlphaSearch(env.supportedCompositeAlpha, 0)
                  IN /\ compositeAlpha' = alpha
                     /\ assert(/\ alpha # VK_COMPOSITE_ALPHA_FLAG_BITS_MAX_ENUM_KHR
                               /\ VK_IMAGE_USAGE_COLOR_ATTACHMENT_BIT
                                      \in env.supportedUsageFlags,
                               ip + 1)
             ELSE compositeAlpha' = compositeAlpha /\ VK_CHECK_ERROR(result, ip + 1)
    /\ UNCHANGED <<i, ctorVars, alive, destroyed, gpuVars, renderVars, frames,
                   envVars, other, mQueueFamilyIndex, surfaceFormatIndex, presentModeIndex,
                   uses>>

\* the search that never finds the format
SurfaceFormatSearch_FirstEntry(formats, k) == 0

\* for (auto i = k; i != surfaceFormatCount; ++i)
\*     if (surfaceFormats[i].format == R8G8B8A8_UNORM) { surfaceFormatIndex = i; break; }
RECURSIVE SurfaceFormatSearch(_, _)
SurfaceFormatSearch(formats, k) ==
    IF k = Len(formats) THEN VK_FORMAT_MAX_ENUM
    ELSE IF formats[k + 1] = VK_FORMAT_R8G8B8A8_UNORM THEN k
    ELSE SurfaceFormatSearch(formats, k + 1)

\* vkGetPhysicalDeviceSurfaceFormatsKHR, the search and
\* assert(surfaceFormatIndex != VK_FORMAT_MAX_ENUM)
GetPhysicalDeviceSurfaceFormatsKHR ==
    /\ At("ctor", "vkGetPhysicalDeviceSurfaceFormatsKHR")
    /\ \E result \in VkResult :
          IF result = VK_SUCCESS
             THEN LET index == SurfaceFormatSearch(env.formats, 0)
                  IN /\ surfaceFormatIndex' = index
                     /\ assert(index # VK_FORMAT_MAX_ENUM, ip + 1)
             ELSE surfaceFormatIndex' = surfaceFormatIndex
                  /\ VK_CHECK_ERROR(result, ip + 1)
    /\ UNCHANGED <<i, ctorVars, alive, destroyed, gpuVars, renderVars, frames,
                   envVars, other, mQueueFamilyIndex, compositeAlpha, presentModeIndex, uses>>

\* for (auto i = k; i != presentModeCount; ++i)
\*     if (presentModes[i] == FIFO) { presentModeIndex = i; break; }
RECURSIVE PresentModeSearch(_, _)
PresentModeSearch(presentModes, k) ==
    IF k = Len(presentModes) THEN VK_PRESENT_MODE_MAX_ENUM_KHR
    ELSE IF presentModes[k + 1] = VK_PRESENT_MODE_FIFO_KHR THEN k
    ELSE PresentModeSearch(presentModes, k + 1)

\* vkGetPhysicalDeviceSurfacePresentModesKHR, the search and
\* assert(presentModeIndex != VK_PRESENT_MODE_MAX_ENUM_KHR)
GetPhysicalDeviceSurfacePresentModesKHR ==
    /\ At("ctor", "vkGetPhysicalDeviceSurfacePresentModesKHR")
    /\ \E result \in VkResult :
          IF result = VK_SUCCESS
             THEN LET index == PresentModeSearch(env.presentModes, 0)
                  IN /\ presentModeIndex' = index
                     /\ assert(index # VK_PRESENT_MODE_MAX_ENUM_KHR, ip + 1)
             ELSE presentModeIndex' = presentModeIndex
                  /\ VK_CHECK_ERROR(result, ip + 1)
    /\ UNCHANGED <<i, ctorVars, alive, destroyed, gpuVars, renderVars, frames,
                   envVars, other, mQueueFamilyIndex, compositeAlpha, surfaceFormatIndex, uses>>

\* vector[index]: the element, or, outside the vector, whatever the read yields
ReadAt(vector, index, domain) ==
    IF index < Len(vector) THEN {vector[index + 1]} ELSE domain \cup {Indeterminate}

\* a read outside a vector may also end the process
MayCrash(vector, index) == IF index < Len(vector) THEN {FALSE} ELSE BOOLEAN

\* swapchainCreateInfo
SwapchainCreateInfo(format, presentMode) ==
    [ surface |-> hSurface,
      imageFormat |-> format,
      imageExtent |-> env.currentExtent,
      imageUsage |-> SwapchainImageUsage,
      compositeAlpha |-> compositeAlpha,
      presentMode |-> presentMode ]

\* swapchainCreateInfo reads surfaceFormats[surfaceFormatIndex] and
\* presentModes[presentModeIndex], then vkCreateSwapchainKHR
CreateSwapchainKHR ==
    /\ At("ctor", "vkCreateSwapchainKHR")
    /\ \E format \in ReadAt(env.formats, surfaceFormatIndex, Formats),
          presentMode \in ReadAt(env.presentModes, presentModeIndex, PresentModes),
          crash \in MayCrash(env.formats, surfaceFormatIndex)
                        \cup MayCrash(env.presentModes, presentModeIndex) :
          IF crash
             THEN Abort("crash") /\ UNCHANGED <<calls, alive, uses>>
             ELSE /\ uses' = Append(uses, Use("vkCreateSwapchainKHR",
                                              SwapchainCreateInfo(format, presentMode)))
                  /\ Create("vkCreateSwapchainKHR", hSwapchain, {hDevice, hSurface},
                            ip + 1)
    /\ UNCHANGED <<i, swapchainImageCount, mSwapchainImages, mSwapchainImageViews,
                   mFramebuffers, destroyed, gpuVars, renderVars, frames>>
    /\ UNCHANGED <<envVars, other, selVars>>

\* the two vkGetSwapchainImagesKHR calls: the driver reports n images, the
\* vectors are resized to n and the images are read
GetSwapchainImagesKHR ==
    /\ At("ctor", "vkGetSwapchainImagesKHR")
    /\ \E result \in VkResult, n \in 1..MaxImages :
          /\ calls' = calls \o [k \in 1..n |->
                          Call("vkGetSwapchainImagesKHR", hImage(k - 1),
                               {hDevice, hSwapchain}, result, FALSE)]
          /\ IF result = VK_SUCCESS
                THEN /\ swapchainImageCount' = n
                     /\ mSwapchainImages' = [k \in 1..n |-> hImage(k - 1)]
                     /\ mSwapchainImageViews' = [k \in 1..n |-> VK_NULL_HANDLE]
                ELSE UNCHANGED <<swapchainImageCount, mSwapchainImages,
                                 mSwapchainImageViews>>
          /\ VK_CHECK_ERROR(result, ip + 1)
    /\ UNCHANGED <<i, mFramebuffers, alive, destroyed, gpuVars, renderVars, frames>>
    /\ UNCHANGED <<envVars, other, selVars, uses>>

\* for (auto i = 0; i != swapchainImageCount; ++i): loop test
ForCreateImageView ==
    /\ At("ctor", "for_vkCreateImageView")
    /\ IF i # swapchainImageCount
          THEN Goto(ip + 1) /\ i' = i
          ELSE Goto(ip + 2) /\ i' = 0
    /\ UNCHANGED <<ctorVars, alive, destroyed, gpuVars, renderVars, frames>>
    /\ UNCHANGED <<envVars, other, selVars, uses>>

CreateImageView ==
    /\ Create("vkCreateImageView", hImageView(i), {hDevice, mSwapchainImages[i + 1]}, ip - 1)
    /\ IF pc' = pc
          THEN /\ mSwapchainImageViews' =
                      [mSwapchainImageViews EXCEPT ![i + 1] = hImageView(i)]
               /\ i' = i + 1
          ELSE UNCHANGED <<mSwapchainImageViews, i>>
    /\ UNCHANGED <<swapchainImageCount, mSwapchainImages, mFramebuffers, destroyed,
                   gpuVars, renderVars, frames>>
    /\ UNCHANGED <<envVars, other, selVars, uses>>

CreateCommandPool ==
    /\ Create("vkCreateCommandPool", hCommandPool, {hDevice}, ip + 1)
    /\ UNCHANGED <<i, swapchainImageCount, mSwapchainImages, mSwapchainImageViews,
                   mFramebuffers, destroyed, gpuVars, renderVars, frames>>
    /\ uses' = Append(uses, Use("vkCreateCommandPool.queueFamilyIndex", mQueueFamilyIndex))
    /\ UNCHANGED <<envVars, other, selVars>>

AllocateCommandBuffers ==
    /\ Create("vkAllocateCommandBuffers", hCommandBuffer, {hDevice, hCommandPool}, ip + 1)
    /\ cmdState' = IF pc' = pc THEN "initial" ELSE cmdState
    /\ UNCHANGED <<i, swapchainImageCount, mSwapchainImages, mSwapchainImageViews,
                   mFramebuffers, destroyed, fence, semaphore, pendingSubmits,
                   pendingPresents, renderVars, frames>>
    /\ UNCHANGED <<envVars, other, selVars, uses>>

\* VK_FENCE_CREATE_SIGNALED_BIT set by mistake
FenceCreateState_Signaled == "signaled"

\* fenceCreateInfo.flags is 0: the fence is created unsignaled
FenceCreateState == "unsignaled"

CreateFence ==
    /\ Create("vkCreateFence", hFence, {hDevice}, ip + 1)
    /\ fence' = IF pc' = pc THEN FenceCreateState ELSE fence
    /\ UNCHANGED <<i, swapchainImageCount, mSwapchainImages, mSwapchainImageViews,
                   mFramebuffers, destroyed, semaphore, cmdState, pendingSubmits,
                   pendingPresents, renderVars, frames>>
    /\ UNCHANGED <<envVars, other, selVars, uses>>

CreateSemaphore ==
    /\ Create("vkCreateSemaphore", hSemaphore, {hDevice}, ip + 1)
    /\ semaphore' = IF pc' = pc THEN "unsignaled" ELSE semaphore
    /\ UNCHANGED <<i, swapchainImageCount, mSwapchainImages, mSwapchainImageViews,
                   mFramebuffers, destroyed, fence, cmdState, pendingSubmits,
                   pendingPresents, renderVars, frames>>
    /\ UNCHANGED <<envVars, other, selVars, uses>>

\* vkCreateRenderPass, then mFramebuffers.resize(swapchainImageCount)
CreateRenderPass ==
    /\ Create("vkCreateRenderPass", hRenderPass, {hDevice}, ip + 1)
    /\ mFramebuffers' = IF pc' = pc
                            THEN [k \in 1..swapchainImageCount |-> VK_NULL_HANDLE]
                            ELSE mFramebuffers
    /\ UNCHANGED <<i, swapchainImageCount, mSwapchainImages, mSwapchainImageViews,
                   destroyed, gpuVars, renderVars, frames>>
    /\ UNCHANGED <<envVars, other, selVars, uses>>

ForCreateFramebuffer ==
    /\ At("ctor", "for_vkCreateFramebuffer")
    /\ IF i # swapchainImageCount
          THEN Goto(ip + 1) /\ i' = i
          ELSE Goto(ip + 2) /\ i' = 0
    /\ UNCHANGED <<ctorVars, alive, destroyed, gpuVars, renderVars, frames>>
    /\ UNCHANGED <<envVars, other, selVars, uses>>

\* every framebuffer attached to the first image view
FramebufferAttachment_First == mSwapchainImageViews[1]

\* framebufferCreateInfo.pAttachments = &mSwapchainImageViews[i]
FramebufferAttachment == mSwapchainImageViews[i + 1]

CreateFramebuffer ==
    /\ Create("vkCreateFramebuffer", hFramebuffer(i),
              {hDevice, hRenderPass, FramebufferAttachment}, ip - 1)
    /\ IF pc' = pc
          THEN /\ mFramebuffers' = [mFramebuffers EXCEPT ![i + 1] = hFramebuffer(i)]
               /\ i' = i + 1
          ELSE UNCHANGED <<mFramebuffers, i>>
    /\ UNCHANGED <<swapchainImageCount, mSwapchainImages, mSwapchainImageViews,
                   destroyed, gpuVars, renderVars, frames>>
    /\ uses' = Append(uses, Use("vkCreateFramebuffer.extent", mSwapchainImageExtent))
    /\ UNCHANGED <<envVars, other, selVars>>

CreateVertexShaderModule ==
    /\ Create("vkCreateShaderModule_vertex", hVertexShaderModule, {hDevice}, ip + 1)
    /\ UNCHANGED <<i, swapchainImageCount, mSwapchainImages, mSwapchainImageViews,
                   mFramebuffers, destroyed, gpuVars, renderVars, frames>>
    /\ UNCHANGED <<envVars, other, selVars, uses>>

CreateFragmentShaderModule ==
    /\ Create("vkCreateShaderModule_fragment", hFragmentShaderModule, {hDevice}, ip + 1)
    /\ UNCHANGED <<i, swapchainImageCount, mSwapchainImages, mSwapchainImageViews,
                   mFramebuffers, destroyed, gpuVars, renderVars, frames>>
    /\ UNCHANGED <<envVars, other, selVars, uses>>

CreatePipelineLayout ==
    /\ Create("vkCreatePipelineLayout", hPipelineLayout, {hDevice}, ip + 1)
    /\ UNCHANGED <<i, swapchainImageCount, mSwapchainImages, mSwapchainImageViews,
                   mFramebuffers, destroyed, gpuVars, renderVars, frames>>
    /\ UNCHANGED <<envVars, other, selVars, uses>>

CreateGraphicsPipelines ==
    /\ Create("vkCreateGraphicsPipelines", hPipeline,
              {hDevice, hVertexShaderModule, hFragmentShaderModule,
               hPipelineLayout, hRenderPass}, ip + 1)
    /\ UNCHANGED <<i, swapchainImageCount, mSwapchainImages, mSwapchainImageViews,
                   mFramebuffers, destroyed, gpuVars, renderVars, frames>>
    /\ uses' = uses \o << Use("viewport.extent", mSwapchainImageExtent),
                       Use("scissor.extent", mSwapchainImageExtent) >>
    /\ UNCHANGED <<envVars, other, selVars>>

CreateBuffer ==
    /\ Create("vkCreateBuffer", hVertexBuffer, {hDevice}, ip + 1)
    /\ UNCHANGED <<i, swapchainImageCount, mSwapchainImages, mSwapchainImageViews,
                   mFramebuffers, destroyed, gpuVars, renderVars, frames>>
    /\ UNCHANGED <<envVars, other, selVars, uses>>

\* the constructor returns: the renderer is ready for render() or destruction
ConstructorReturn ==
    /\ pc = "ctor" /\ ip = Len(CtorOrder) + 1
    /\ pc' = "ready" /\ ip' = 1
    /\ UNCHANGED <<i, ctorVars, alive, destroyed, gpuVars, renderVars, frames>>
    /\ UNCHANGED <<envVars, other, selVars, uses, abortCause>>


\* -------------------------------------------------------------- destructor
\* ~VkRenderer() is entered on a constructed renderer, between render() calls
CallDestructor ==
    /\ pc = "ready"
    /\ pc' = "dtor" /\ ip' = 1 /\ i' = 0
    /\ UNCHANGED <<ctorVars, alive, destroyed, gpuVars, renderVars, frames>>
    /\ UNCHANGED <<envVars, other, selVars, uses, abortCause>>

\* a vkDestroy*/vkFree* call at statement `label` releasing handle h
Destroy(label, h, n) ==
    /\ At("dtor", label)
    /\ destroyed' = Append(destroyed, h)
    /\ alive' = alive \ {h}
    /\ Goto(n)

DestroyBuffer ==
    /\ Destroy("vkDestroyBuffer", hVertexBuffer, ip + 1)
    /\ UNCHANGED <<i, ctorVars, gpuVars, renderVars, frames>>
    /\ UNCHANGED <<envVars, other, selVars, uses>>

DestroyPipelineLayout ==
    /\ Destroy("vkDestroyPipelineLayout", hPipelineLayout, ip + 1)
    /\ UNCHANGED <<i, ctorVars, gpuVars, renderVars, frames>>
    /\ UNCHANGED <<envVars, other, selVars, uses>>

DestroyPipeline ==
    /\ Destroy("vkDestroyPipeline", hPipeline, ip + 1)
    /\ UNCHANGED <<i, ctorVars, gpuVars, renderVars, frames>>
    /\ UNCHANGED <<envVars, other, selVars, uses>>

DestroyVertexShaderModule ==
    /\ Destroy("vkDestroyShaderModule_vertex", hVertexShaderModule, ip + 1)
    /\ UNCHANGED <<i, ctorVars, gpuVars, renderVars, frames>>
    /\ UNCHANGED <<envVars, other, selVars, uses>>

DestroyFragmentShaderModule ==
    /\ Destroy("vkDestroyShaderModule_fragment", hFragmentShaderModule, ip + 1)
    /\ UNCHANGED <<i, ctorVars, gpuVars, renderVars, frames>>
    /\ UNCHANGED <<envVars, other, selVars, uses>>

\* for (auto framebuffer : mFramebuffers): loop test
ForDestroyFramebuffer ==
    /\ At("dtor", "for_vkDestroyFramebuffer")
    /\ IF i # Len(mFramebuffers)
          THEN Goto(ip + 1) /\ i' = i
          ELSE Goto(ip + 2) /\ i' = 0
    /\ UNCHANGED <<ctorVars, alive, destroyed, gpuVars, renderVars, frames>>
    /\ UNCHANGED <<envVars, other, selVars, uses>>

DestroyFramebuffer ==
    /\ Destroy("vkDestroyFramebuffer", mFramebuffers[i + 1], ip - 1)
    /\ i' = i + 1
    /\ UNCHANGED <<ctorVars, gpuVars, renderVars, frames>>
    /\ UNCHANGED <<envVars, other, selVars, uses>>

FramebuffersClear ==
    /\ At("dtor", "mFramebuffers_clear")
    /\ mFramebuffers' = << >>
    /\ Goto(ip + 1)
    /\ UNCHANGED <<i, swapchainImageCount, mSwapchainImages, mSwapchainImageViews,
                   calls, alive, destroyed, gpuVars, renderVars, frames>>
    /\ UNCHANGED <<envVars, other, selVars, uses>>

DestroyRenderPass ==
    /\ Destroy("vkDestroyRenderPass", hRenderPass, ip + 1)
    /\ UNCHANGED <<i, ctorVars, gpuVars, renderVars, frames>>
    /\ UNCHANGED <<envVars, other, selVars, uses>>

\* for (auto imageView : mSwapchainImageViews): loop test
ForDestroyImageView ==
    /\ At("dtor", "for_vkDestroyImageView")
    /\ IF i # Len(mSwapchainImageViews)
          THEN Goto(ip + 1) /\ i' = i
          ELSE Goto(ip + 2) /\ i' = 0
    /\ UNCHANGED <<ctorVars, alive, destroyed, gpuVars, renderVars, frames>>
    /\ UNCHANGED <<envVars, other, selVars, uses>>

DestroyImageView ==
    /\ Destroy("vkDestroyImageView", mSwapchainImageViews[i + 1], ip - 1)
    /\ i' = i + 1
    /\ UNCHANGED <<ctorVars, gpuVars, renderVars, frames>>
    /\ UNCHANGED <<envVars, other, selVars, uses>>

SwapchainImageViewsClear ==
    /\ At("dtor", "mSwapchainImageViews_clear")
    /\ mSwapchainImageViews' = << >>
    /\ Goto(ip + 1)
    /\ UNCHANGED <<i, swapchainImageCount, mSwapchainImages, mFramebuffers,
                   calls, alive, destroyed, gpuVars, renderVars, frames>>
    /\ UNCHANGED <<envVars, other, selVars, uses>>

DestroySemaphore ==
    /\ Destroy("vkDestroySemaphore", hSemaphore, ip + 1)
    /\ UNCHANGED <<i, ctorVars, gpuVars, renderVars, frames>>
    /\ UNCHANGED <<envVars, other, selVars, uses>>

DestroyFence ==
    /\ Destroy("vkDestroyFence", hFence, ip + 1)
    /\ UNCHANGED <<i, ctorVars, gpuVars, renderVars, frames>>
    /\ UNCHANGED <<envVars, other, selVars, uses>>

FreeCommandBuffers ==
    /\ Destroy("vkFreeCommandBuffers", hCommandBuffer, ip + 1)
    /\ UNCHANGED <<i, ctorVars, gpuVars, renderVars, frames>>
    /\ UNCHANGED <<envVars, other, selVars, uses>>

DestroyCommandPool ==
    /\ Destroy("vkDestroyCommandPool", hCommandPool, ip + 1)
    /\ UNCHANGED <<i, ctorVars, gpuVars, renderVars, frames>>
    /\ UNCHANGED <<envVars, other, selVars, uses>>

DestroySwapchainKHR ==
    /\ Destroy("vkDestroySwapchainKHR", hSwapchain, ip + 1)
    /\ UNCHANGED <<i, ctorVars, gpuVars, renderVars, frames>>
    /\ UNCHANGED <<envVars, other, selVars, uses>>

DestroySurfaceKHR ==
    /\ Destroy("vkDestroySurfaceKHR", hSurface, ip + 1)
    /\ UNCHANGED <<i, ctorVars, gpuVars, renderVars, frames>>
    /\ UNCHANGED <<envVars, other, selVars, uses>>

DestroyDevice ==
    /\ Destroy("vkDestroyDevice", hDevice, ip + 1)
    /\ UNCHANGED <<i, ctorVars, gpuVars, renderVars, frames>>
    /\ UNCHANGED <<envVars, other, selVars, uses>>

DestroyInstance ==
    /\ Destroy("vkDestroyInstance", hInstance, ip + 1)
    /\ UNCHANGED <<i, ctorVars, gpuVars, renderVars, frames>>
    /\ UNCHANGED <<envVars, other, selVars, uses>>

DestructorReturn ==
    /\ pc = "dtor" /\ ip = Len(DtorOrder) + 1
    /\ pc' = "done" /\ ip' = 1
    /\ UNCHANGED <<i, ctorVars, alive, destroyed, gpuVars, renderVars, frames>>
    /\ UNCHANGED <<envVars, other, selVars, uses, abortCause>>


\* ------------------------------------------------------------------ render
objVars == <<i, ctorVars, alive, destroyed, frames>>

OpR(name, arg, result) == [op |-> name, arg |-> arg, result |-> result]

\* an operation that returns no result
Op(name, arg) == OpR(name, arg, "void")

\* render() is called on a constructed renderer, one call at a time
CallRender ==
    /\ pc = "ready" /\ frames < MaxFrames
    /\ pc' = "render" /\ ip' = 1
    /\ ops' = << >>
    /\ UNCHANGED <<objVars, gpuVars, swapchainImageIndex, framebuffer, mClearValue,
                   nAcquire, nSubmit, nPresent>>
    /\ UNCHANGED <<envVars, other, selVars, uses, abortCause>>

\* vkAcquireNextImageKHR(mDevice, mSwapchain, UINT64_MAX, VK_NULL_HANDLE, mFence,
\* &swapchainImageIndex): the driver picks the image and queues the fence signal
AcquireNextImageKHR ==
    /\ At("render", "vkAcquireNextImageKHR")
    /\ \E result \in VkResult, idx \in 0..(Len(mSwapchainImages) - 1) :
          /\ ops' = Append(ops, OpR("vkAcquireNextImageKHR",
                                   <<hFence, fence,
                                     IF result = VK_SUCCESS THEN idx ELSE -1>>, result))
          /\ nAcquire' = nAcquire + 1
          /\ IF result = VK_SUCCESS
                THEN swapchainImageIndex' = idx /\ fence' = "pending"
                ELSE UNCHANGED <<swapchainImageIndex, fence>>
          /\ VK_CHECK_ERROR(result, ip + 1)
    /\ UNCHANGED <<objVars, semaphore, cmdState, pendingSubmits, pendingPresents,
                   framebuffer, mClearValue, nSubmit, nPresent>>
    /\ UNCHANGED <<envVars, other, selVars, uses>>

\* auto framebuffer = mFramebuffers[swapchainImageIndex]
FramebufferAssign ==
    /\ At("render", "framebuffer_assign")
    /\ framebuffer' = mFramebuffers[swapchainImageIndex + 1]
    /\ Goto(ip + 1)
    /\ UNCHANGED <<objVars, gpuVars, swapchainImageIndex, ops, mClearValue,
                   nAcquire, nSubmit, nPresent>>
    /\ UNCHANGED <<envVars, other, selVars, uses>>

\* a fence wait that gives up while the signal is still pending
FenceWaitDone_GivesUp == fence # "unsignaled"

\* a fence wait that returns at once
FenceWaitDone_NoWait == TRUE

\* vkWaitForFences(mDevice, 1, &mFence, VK_TRUE, UINT64_MAX) has what it waits for
FenceWaitDone == fence = "signaled"

\* vkWaitForFences(.., UINT64_MAX): returns VK_SUCCESS only once the fence is signaled
WaitForFences ==
    /\ At("render", "vkWaitForFences")
    /\ \E result \in VkResult :
          /\ result = VK_SUCCESS => FenceWaitDone
          /\ ops' = Append(ops, OpR("vkWaitForFences", <<hFence>>, result))
          /\ VK_CHECK_ERROR(result, ip + 1)
    /\ UNCHANGED <<objVars, gpuVars, swapchainImageIndex, framebuffer, mClearValue,
                   nAcquire, nSubmit, nPresent>>
    /\ UNCHANGED <<envVars, other, selVars, uses>>

ResetFences ==
    /\ At("render", "vkResetFences")
    /\ \E result \in VkResult :
          /\ ops' = Append(ops, OpR("vkResetFences", <<hFence>>, result))
          /\ fence' = IF result = VK_SUCCESS THEN "unsignaled" ELSE fence
          /\ VK_CHECK_ERROR(result, ip + 1)
    /\ UNCHANGED <<objVars, semaphore, cmdState, pendingSubmits, pendingPresents,
                   swapchainImageIndex, framebuffer, mClearValue,
                   nAcquire, nSubmit, nPresent>>
    /\ UNCHANGED <<envVars, other, selVars, uses>>

\* vkResetCommandBuffer(mCommandBuffer, 0): the result is not checked
ResetCommandBuffer ==
    /\ At("render", "vkResetCommandBuffer")
    /\ \E result \in VkResult :
          /\ ops' = Append(ops, OpR("vkResetCommandBuffer", <<cmdState>>, result))
          /\ cmdState' = IF result = VK_SUCCESS THEN "initial" ELSE cmdState
    /\ Goto(ip + 1)
    /\ UNCHANGED <<objVars, fence, semaphore, pendingSubmits, pendingPresents,
                   swapchainImageIndex, framebuffer, mClearValue,
                   nAcquire, nSubmit, nPresent>>
    /\ UNCHANGED <<envVars, other, selVars, uses>>

BeginCommandBuffer ==
    /\ At("render", "vkBeginCommandBuffer")
    /\ \E result \in VkResult :
          /\ ops' = Append(ops, OpR("vkBeginCommandBuffer", <<cmdState>>, result))
          /\ cmdState' = IF result = VK_SUCCESS THEN "recording" ELSE cmdState
          /\ VK_CHECK_ERROR(result, ip + 1)
    /\ UNCHANGED <<objVars, fence, semaphore, pendingSubmits, pendingPresents,
                   swapchainImageIndex, framebuffer, mClearValue,
                   nAcquire, nSubmit, nPresent>>
    /\ UNCHANGED <<envVars, other, selVars, uses>>

\* a vkCmd* call: records a command, returns nothing
Cmd(label, arg) ==
    /\ At("render", label)
    /\ ops' = Append(ops, Op(label, arg))
    /\ Goto(ip + 1)

\* renderPassBeginInfo: .framebuffer = framebuffer, .pClearValues = &mClearValue
CmdBeginRenderPass ==
    /\ Cmd("vkCmdBeginRenderPass", <<framebuffer, mClearValue, mSwapchainImageExtent>>)
    /\ UNCHANGED <<objVars, gpuVars, swapchainImageIndex, framebuffer, mClearValue,
                   nAcquire, nSubmit, nPresent>>
    /\ UNCHANGED <<envVars, other, selVars, uses>>

CmdBindPipeline ==
    /\ Cmd("vkCmdBindPipeline", <<hPipeline>>)
    /\ UNCHANGED <<objVars, gpuVars, swapchainImageIndex, framebuffer, mClearValue,
                   nAcquire, nSubmit, nPresent>>
    /\ UNCHANGED <<envVars, other, selVars, uses>>

CmdDraw ==
    /\ Cmd("vkCmdDraw", <<DrawVertexCount, DrawInstanceCount, 0, 0>>)
    /\ UNCHANGED <<objVars, gpuVars, swapchainImageIndex, framebuffer, mClearValue,
                   nAcquire, nSubmit, nPresent>>
    /\ UNCHANGED <<envVars, other, selVars, uses>>

CmdEndRenderPass ==
    /\ Cmd("vkCmdEndRenderPass", << >>)
    /\ UNCHANGED <<objVars, gpuVars, swapchainImageIndex, framebuffer, mClearValue,
                   nAcquire, nSubmit, nPresent>>
    /\ UNCHANGED <<envVars, other, selVars, uses>>

\* the sum stored without the wrap-around
fmodf_NoWrap(x, y) == x

\* fmodf over non-negative hundredths
fmodf(x, y) == x % y

\* for (i = 0; i != 4; ++i) float32[i] = fmodf(float32[i] + 0.01, 1.0)
ClearValueUpdate ==
    /\ At("render", "mClearValue_update")
    /\ mClearValue' = [c \in 1..ClearChannels |->
                          fmodf(mClearValue[c] + ClearStep, ClearOne)]
    /\ ops' = Append(ops, Op("mClearValue_update", << >>))
    /\ Goto(ip + 1)
    /\ UNCHANGED <<objVars, gpuVars, swapchainImageIndex, framebuffer,
                   nAcquire, nSubmit, nPresent>>
    /\ UNCHANGED <<envVars, other, selVars, uses>>

EndCommandBuffer ==
    /\ At("render", "vkEndCommandBuffer")
    /\ \E result \in VkResult :
          /\ ops' = Append(ops, OpR("vkEndCommandBuffer", <<cmdState>>, result))
          /\ cmdState' = IF result = VK_SUCCESS THEN "executable" ELSE cmdState
          /\ VK_CHECK_ERROR(result, ip + 1)
    /\ UNCHANGED <<objVars, fence, semaphore, pendingSubmits, pendingPresents,
                   swapchainImageIndex, framebuffer, mClearValue,
                   nAcquire, nSubmit, nPresent>>
    /\ UNCHANGED <<envVars, other, selVars, uses>>

\* vkQueueSubmit(mQueue, 1, &submitInfo, VK_NULL_HANDLE): one command buffer,
\* signalling mSemaphore on completion
QueueSubmit ==
    /\ At("render", "vkQueueSubmit")
    /\ \E result \in VkResult :
          /\ ops' = Append(ops, OpR("vkQueueSubmit", <<hCommandBuffer, hSemaphore, semaphore>>, result))
          /\ nSubmit' = nSubmit + 1
          /\ IF result = VK_SUCCESS
                THEN /\ pendingSubmits' = pendingSubmits + 1
                     /\ cmdState' = "pending"
                     /\ semaphore' = "pending"
                ELSE UNCHANGED <<pendingSubmits, cmdState, semaphore>>
          /\ VK_CHECK_ERROR(result, ip + 1)
    /\ UNCHANGED <<objVars, fence, pendingPresents, swapchainImageIndex, framebuffer,
                   mClearValue, nAcquire, nPresent>>
    /\ UNCHANGED <<envVars, other, selVars, uses>>

\* presenting the image after the acquired one
PresentImageIndex_Next == (swapchainImageIndex + 1) % Len(mSwapchainImages)

\* the image index vkQueuePresentKHR is given: presentInfo.pImageIndices
PresentImageIndex == swapchainImageIndex

\* vkQueuePresentKHR(mQueue, &presentInfo): waits on mSemaphore
QueuePresentKHR ==
    /\ At("render", "vkQueuePresentKHR")
    /\ \E result \in VkResult :
          /\ ops' = Append(ops, OpR("vkQueuePresentKHR", <<hSemaphore, PresentImageIndex>>, result))
          /\ nPresent' = nPresent + 1
          /\ pendingPresents' = IF result = VK_SUCCESS THEN pendingPresents + 1
                                                       ELSE pendingPresents
          /\ VK_CHECK_ERROR(result, ip + 1)
    /\ UNCHANGED <<objVars, fence, semaphore, cmdState, pendingSubmits,
                   swapchainImageIndex, framebuffer, mClearValue, nAcquire, nSubmit>>
    /\ UNCHANGED <<envVars, other, selVars, uses>>

\* a wait for the submitted command buffers only, not for the queued present
QueueIdle_SubmitsOnly == pendingSubmits = 0

\* a wait that returns without waiting
QueueIdle_NoWait == TRUE

\* the queue has executed everything submitted to it
QueueIdle == pendingSubmits = 0 /\ pendingPresents = 0

\* vkQueueWaitIdle(mQueue): returns VK_SUCCESS only once the queue is idle
QueueWaitIdle ==
    /\ At("render", "vkQueueWaitIdle")
    /\ \E result \in VkResult :
          /\ result = VK_SUCCESS => QueueIdle
          /\ ops' = Append(ops, OpR("vkQueueWaitIdle", <<pendingSubmits, pendingPresents>>, result))
          /\ VK_CHECK_ERROR(result, ip + 1)
    /\ UNCHANGED <<objVars, gpuVars, swapchainImageIndex, framebuffer, mClearValue,
                   nAcquire, nSubmit, nPresent>>
    /\ UNCHANGED <<envVars, other, selVars, uses>>

RenderReturn ==
    /\ pc = "render" /\ ip = Len(RenderOrder) + 1
    /\ pc' = "ready" /\ ip' = 1
    /\ frames' = frames + 1
    /\ UNCHANGED <<i, ctorVars, alive, destroyed, gpuVars, renderVars>>
    /\ UNCHANGED <<envVars, other, selVars, uses, abortCause>>

\* ---------------------------------------------------------- driver and GPU
\* the acquired image becomes available: the fence given to the acquisition signals
DriverSignalFence ==
    /\ pc # "aborted" /\ fence = "pending"
    /\ fence' = "signaled"
    /\ UNCHANGED <<pc, ip, objVars, semaphore, cmdState, pendingSubmits,
                   pendingPresents, renderVars>>
    /\ UNCHANGED <<envVars, other, selVars, uses, abortCause>>

\* the submitted command buffer completes: the semaphore signals; a buffer begun
\* with ONE_TIME_SUBMIT becomes invalid
GpuExecute ==
    /\ pc # "aborted" /\ pendingSubmits > 0
    /\ pendingSubmits' = pendingSubmits - 1
    /\ semaphore' = "signaled"
    /\ cmdState' = "invalid"
    /\ UNCHANGED <<pc, ip, objVars, fence, pendingPresents, renderVars>>
    /\ UNCHANGED <<envVars, other, selVars, uses, abortCause>>

\* a present that waits on nothing
PresentWaitSemaphores_None == {}

\* presentInfo.pWaitSemaphores
PresentWaitSemaphores == {hSemaphore}

\* the queued present executes once the semaphore it waits on is signaled, and
\* unsignals it
GpuPresent ==
    /\ pc # "aborted" /\ pendingPresents > 0
    /\ hSemaphore \in PresentWaitSemaphores => semaphore = "signaled"
    /\ pendingPresents' = pendingPresents - 1
    /\ semaphore' = IF hSemaphore \in PresentWaitSemaphores THEN "unsignaled"
                                                            ELSE semaphore
    /\ UNCHANGED <<pc, ip, objVars, fence, cmdState, pendingSubmits, renderVars>>
    /\ UNCHANGED <<envVars, other, selVars, uses, abortCause>>

Next ==
    \/ EnumerateInstanceExtensionProperties
    \/ CreateInstance \/ EnumeratePhysicalDevices
    \/ GetPhysicalDeviceQueueFamilyProperties \/ EnumerateDeviceExtensionProperties
    \/ CreateDevice \/ GetDeviceQueue
    \/ CreateAndroidSurfaceKHR \/ GetPhysicalDeviceSurfaceSupportKHR
    \/ GetPhysicalDeviceSurfaceCapabilitiesKHR \/ GetPhysicalDeviceSurfaceFormatsKHR
    \/ GetPhysicalDeviceSurfacePresentModesKHR
    \/ CreateSwapchainKHR \/ GetSwapchainImagesKHR
    \/ ForCreateImageView \/ CreateImageView \/ CreateCommandPool
    \/ AllocateCommandBuffers \/ CreateFence \/ CreateSemaphore \/ CreateRenderPass
    \/ ForCreateFramebuffer \/ CreateFramebuffer \/ CreateVertexShaderModule
    \/ CreateFragmentShaderModule \/ CreatePipelineLayout \/ CreateGraphicsPipelines
    \/ CreateBuffer \/ ConstructorReturn
    \/ CallRender \/ AcquireNextImageKHR \/ FramebufferAssign \/ WaitForFences
    \/ ResetFences \/ ResetCommandBuffer \/ BeginCommandBuffer \/ CmdBeginRenderPass
    \/ CmdBindPipeline \/ CmdDraw \/ CmdEndRenderPass \/ ClearValueUpdate
    \/ EndCommandBuffer \/ QueueSubmit \/ QueuePresentKHR \/ QueueWaitIdle
    \/ RenderReturn
    \/ DriverSignalFence \/ GpuExecute \/ GpuPresent
    \/ CallDestructor \/ DestroyBuffer \/ DestroyPipelineLayout \/ DestroyPipeline
    \/ DestroyVertexShaderModule \/ DestroyFragmentShaderModule
    \/ ForDestroyFramebuffer \/ DestroyFramebuffer \/ FramebuffersClear
    \/ DestroyRenderPass \/ ForDestroyImageView \/ DestroyImageView
    \/ SwapchainImageViewsClear \/ DestroySemaphore \/ DestroyFence
    \/ FreeCommandBuffers \/ DestroyCommandPool \/ DestroySwapchainKHR
    \/ DestroySurfaceKHR \/ DestroyDevice \/ DestroyInstance \/ DestructorReturn

Spec == Init /\ [][Next]_vars

\* a step of render(), its return included
RenderStep ==
    \/ AcquireNextImageKHR \/ FramebufferAssign \/ WaitForFences \/ ResetFences
    \/ ResetCommandBuffer \/ BeginCommandBuffer \/ CmdBeginRenderPass
    \/ CmdBindPipeline \/ CmdDraw \/ CmdEndRenderPass \/ ClearValueUpdate
    \/ EndCommandBuffer \/ QueueSubmit \/ QueuePresentKHR \/ QueueWaitIdle
    \/ RenderReturn

\* the thread inside render() keeps running: a step that can be taken without
\* an error is eventually taken; a blocking call whose condition does not hold
\* has no such step
RenderProgress == WF_vars(RenderStep /\ pc' # "aborted")

\* the driver and the GPU finish what they were given
DriverFairness ==
    WF_vars(DriverSignalFence) /\ WF_vars(GpuExecute) /\ WF_vars(GpuPresent)

\* one renderer in the nominal environment, with a zero clear colour
InitLive ==
    /\ InitState
    /\ mClearValue = [c \in 1..ClearChannels |-> 0]
    /\ mClearValue0 = mClearValue
    /\ build \in Builds
    /\ env = NominalEnv
    /\ mSwapchainImageExtent \in ExtentInit
    /\ other = NoThread

\* the whole life under a fair driver and GPU
SpecLive == InitLive /\ [][Next]_vars /\ RenderProgress /\ DriverFairness

\* the scheduler switches between two threads that use the constructed renderer:
\* render() takes no lock, so a switch can come between any two of its statements
Preempt ==
    /\ pc \in {"ready", "render"} /\ other.pc \in {"ready", "render"}
    /\ other.switches < MaxSwitches
    /\ pc' = other.pc /\ ip' = other.ip
    /\ swapchainImageIndex' = other.swapchainImageIndex
    /\ framebuffer' = other.framebuffer
    /\ other' = Thread(pc, ip, swapchainImageIndex, framebuffer, other.switches + 1)
    /\ UNCHANGED <<objVars, gpuVars, ops, mClearValue, nAcquire, nSubmit, nPresent,
                   envVars, selVars, uses, abortCause>>

\* a renderer being constructed by the thread that will share it with a second one
InitTwo ==
    /\ InitState
    /\ mClearValue = [c \in 1..ClearChannels |-> 0]
    /\ mClearValue0 = mClearValue
    /\ build = "debug"
    /\ env = NominalEnv
    /\ mSwapchainImageExtent = env.currentExtent
    /\ other = Thread("ready", 1, 0, VK_NULL_HANDLE, 0)

\* construction, then render() called from two threads with no exclusion
NextTwo ==
    \/ EnumerateInstanceExtensionProperties
    \/ CreateInstance \/ EnumeratePhysicalDevices
    \/ GetPhysicalDeviceQueueFamilyProperties \/ EnumerateDeviceExtensionProperties
    \/ CreateDevice \/ GetDeviceQueue
    \/ CreateAndroidSurfaceKHR \/ GetPhysicalDeviceSurfaceSupportKHR
    \/ GetPhysicalDeviceSurfaceCapabilitiesKHR \/ GetPhysicalDeviceSurfaceFormatsKHR
    \/ GetPhysicalDeviceSurfacePresentModesKHR
    \/ CreateSwapchainKHR \/ GetSwapchainImagesKHR
    \/ ForCreateImageView \/ CreateImageView \/ CreateCommandPool
    \/ AllocateCommandBuffers \/ CreateFence \/ CreateSemaphore \/ CreateRenderPass
    \/ ForCreateFramebuffer \/ CreateFramebuffer \/ CreateVertexShaderModule
    \/ CreateFragmentShaderModule \/ CreatePipelineLayout \/ CreateGraphicsPipelines
    \/ CreateBuffer \/ ConstructorReturn
    \/ CallRender \/ AcquireNextImageKHR \/ FramebufferAssign \/ WaitForFences
    \/ ResetFences \/ ResetCommandBuffer \/ BeginCommandBuffer \/ CmdBeginRenderPass
    \/ CmdBindPipeline \/ CmdDraw \/ CmdEndRenderPass \/ ClearValueUpdate
    \/ EndCommandBuffer \/ QueueSubmit \/ QueuePresentKHR \/ QueueWaitIdle
    \/ RenderReturn
    \/ DriverSignalFence \/ GpuExecute \/ GpuPresent
    \/ Preempt

SpecTwo == InitTwo /\ [][NextTwo]_vars

\* the constructor, from its entry to its return or to the end of the process
NextCtor ==
    \/ EnumerateInstanceExtensionProperties
    \/ CreateInstance \/ EnumeratePhysicalDevices
    \/ GetPhysicalDeviceQueueFamilyProperties \/ EnumerateDeviceExtensionProperties
    \/ CreateDevice \/ GetDeviceQueue
    \/ CreateAndroidSurfaceKHR \/ GetPhysicalDeviceSurfaceSupportKHR
    \/ GetPhysicalDeviceSurfaceCapabilitiesKHR \/ GetPhysicalDeviceSurfaceFormatsKHR
    \/ GetPhysicalDeviceSurfacePresentModesKHR
    \/ CreateSwapchainKHR \/ GetSwapchainImagesKHR
    \/ ForCreateImageView \/ CreateImageView \/ CreateCommandPool
    \/ AllocateCommandBuffers \/ CreateFence \/ CreateSemaphore \/ CreateRenderPass
    \/ ForCreateFramebuffer \/ CreateFramebuffer \/ CreateVertexShaderModule
    \/ CreateFragmentShaderModule \/ CreatePipelineLayout \/ CreateGraphicsPipelines
    \/ CreateBuffer \/ ConstructorReturn

SpecCtor == InitCtor /\ [][NextCtor]_vars

\* ================================================================== claims
\* the owned handles the constructor created, in creation order
Created ==
    LET ok == SelectSeq(calls, LAMBDA c : c.owned /\ c.result = VK_SUCCESS)
    IN [k \in 1..Len(ok) |-> ok[k].h]

Range(seq) == {seq[k] : k \in 1..Len(seq)}
IsDestroyed(h) == h \in Range(destroyed)
Pos(seq, x) == CHOOSE k \in 1..Len(seq) : seq[k] = x
Kind(h) == h[1]
CountKind(seq, kind) == Cardinality({k \in 1..Len(seq) : Kind(seq[k]) = kind})

\* C1: the destructor releases the handles in the exact reverse of the order in
\* which the constructor acquired them: whenever A was created before B, B is
\* destroyed before A.
C1_ReverseOrder ==
    pc = "done" =>
        \A a, b \in 1..Len(Created) :
            a < b => /\ IsDestroyed(Created[a]) /\ IsDestroyed(Created[b])
                     /\ Pos(destroyed, Created[b]) < Pos(destroyed, Created[a])

\* C2: after construction and destruction the destructor has issued as many
\* destroy/free calls as the constructor issued create/allocate calls, for every
\* swapchain image count N (N image views and N framebuffers created and
\* destroyed); every created handle is destroyed exactly once and none is left.
C2_CreateDestroyBalance ==
    pc = "done" =>
        /\ Len(destroyed) = Len(Created)
        /\ Range(destroyed) = Range(Created)
        /\ Cardinality(Range(destroyed)) = Len(destroyed)
        /\ alive = {}
        /\ CountKind(Created, "mSwapchainImageViews") = swapchainImageCount
        /\ CountKind(destroyed, "mSwapchainImageViews") = swapchainImageCount
        /\ CountKind(Created, "mFramebuffers") = swapchainImageCount
        /\ CountKind(destroyed, "mFramebuffers") = swapchainImageCount

C2_Witness ==
    /\ pc = "done"
    /\ swapchainImageCount = 2
    /\ Len(destroyed) = 18

\* the handles created from the device
DeviceLevel ==
    {h \in Range(Created) : h \notin {hInstance, hDevice, hSurface}}

\* at every moment of the destruction, b is gone only if a is gone already
GoneBefore(a, b) == IsDestroyed(b) => IsDestroyed(a)

\* C3: during destruction every parent outlives what is derived from it: the
\* instance is destroyed last, the device after every device-level handle, the
\* surface after the swapchain and before the instance, every image view before
\* the swapchain, every framebuffer before the render pass, the command buffer
\* before its command pool.
C3_ParentsOutlive ==
    pc \in {"dtor", "done"} =>
        /\ \A h \in Range(Created) \ {hInstance} : GoneBefore(h, hInstance)
        /\ \A h \in DeviceLevel : GoneBefore(h, hDevice)
        /\ GoneBefore(hSwapchain, hSurface)
        /\ GoneBefore(hSurface, hInstance)
        /\ \A h \in Range(Created) :
               /\ Kind(h) = "mSwapchainImageViews" => GoneBefore(h, hSwapchain)
               /\ Kind(h) = "mFramebuffers" => GoneBefore(h, hRenderPass)
        /\ GoneBefore(hCommandBuffer, hCommandPool)
        /\ pc = "done" => Range(Created) \subseteq Range(destroyed)

C3_Witness ==
    /\ pc = "done"
    /\ swapchainImageCount = 2
    /\ destroyed[Len(destroyed)] = hInstance
    /\ destroyed[Len(destroyed) - 1] = hDevice

\* the stage of the stated dependency order a constructor call belongs to
Stage(fn) ==
    CASE fn = "vkCreateInstance" -> 1
      [] fn = "vkEnumeratePhysicalDevices" -> 2
      [] fn \in {"vkCreateDevice", "vkGetDeviceQueue"} -> 3
      [] fn = "vkCreateAndroidSurfaceKHR" -> 4
      [] fn \in {"vkCreateSwapchainKHR", "vkGetSwapchainImagesKHR"} -> 5
      [] fn = "vkCreateImageView" -> 6
      [] fn = "vkCreateCommandPool" -> 7
      [] fn = "vkAllocateCommandBuffers" -> 8
      [] fn = "vkCreateFence" -> 9
      [] fn = "vkCreateSemaphore" -> 10
      [] fn = "vkCreateRenderPass" -> 11
      [] fn = "vkCreateFramebuffer" -> 12
      [] fn \in {"vkCreateShaderModule_vertex", "vkCreateShaderModule_fragment"} -> 13
      [] fn = "vkCreatePipelineLayout" -> 14
      [] fn = "vkCreateGraphicsPipelines" -> 15
      [] fn = "vkCreateBuffer" -> 16

\* C4: the constructor acquires the handles in the stated dependency order
\* (Instance, PhysicalDevice, Device+Queue, Surface, Swapchain+Images, ImageViews,
\* CommandPool, CommandBuffer, Fence, Semaphore, RenderPass, Framebuffers,
\* ShaderModules, PipelineLayout, Pipeline, VertexBuffer), and every handle a call
\* is given was produced by an earlier successful call.
C4_DependencyOrder ==
    /\ \A k \in 1..(Len(calls) - 1) :
           Stage(calls[k].fn) <= Stage(calls[k + 1].fn)
    /\ \A k \in 1..Len(calls) : \A a \in calls[k].args :
           \E j \in 1..(k - 1) : calls[j].h = a /\ calls[j].result = VK_SUCCESS
    /\ pc = "ready" => {Stage(calls[k].fn) : k \in 1..Len(calls)} = 1..16

C4_Witness ==
    /\ pc = "ready"
    /\ frames = 0
    /\ swapchainImageCount = 2
    /\ calls[Len(calls)].fn = "vkCreateBuffer"
    /\ calls[Len(calls) - 1].args =
           {hDevice, hVertexShaderModule, hFragmentShaderModule, hPipelineLayout,
            hRenderPass}

\* positions of the operation `name` among the operations of the current call
OpsAt(name) == {k \in 1..Len(ops) : ops[k].op = name}

\* C5: after N render() calls that returned, exactly N image acquisitions, N
\* queue submissions and N presents have been issued, and each present targets
\* the image index acquired in the same call.
C5_OnePerFrame ==
    /\ pc = "ready" =>
           /\ nAcquire = frames /\ nSubmit = frames /\ nPresent = frames
           /\ frames > 0 =>
                  /\ Cardinality(OpsAt("vkAcquireNextImageKHR")) = 1
                  /\ Cardinality(OpsAt("vkQueueSubmit")) = 1
                  /\ Cardinality(OpsAt("vkQueuePresentKHR")) = 1
    /\ \A k \in OpsAt("vkQueuePresentKHR") :
           \E j \in OpsAt("vkAcquireNextImageKHR") :
               j < k /\ ops[k].arg[2] = ops[j].arg[3]

C5_Witness ==
    /\ pc = "ready" /\ frames = 2 /\ nPresent = 2
    /\ \E k \in OpsAt("vkQueuePresentKHR") : ops[k].arg[2] = 1

\* C6: render() returns only after the queue is idle, so frames never overlap:
\* whenever a render() call is about to issue its image acquisition, and whenever
\* a call has returned, no submitted work and no queued present is outstanding.
C6_NoOverlap ==
    /\ At("render", "vkAcquireNextImageKHR") =>
           pendingSubmits = 0 /\ pendingPresents = 0 /\ cmdState # "pending"
    /\ pc = "ready" =>
           pendingSubmits = 0 /\ pendingPresents = 0 /\ cmdState # "pending"

C6_Witness ==
    /\ At("render", "vkAcquireNextImageKHR")
    /\ frames = 1 /\ nSubmit = 1 /\ nPresent = 1

\* the Vulkan operations of one render() call, in the stated order
FrameOps ==
    << "vkAcquireNextImageKHR", "vkWaitForFences", "vkResetFences",
       "vkResetCommandBuffer", "vkBeginCommandBuffer", "vkCmdBeginRenderPass",
       "vkCmdBindPipeline", "vkCmdDraw", "vkCmdEndRenderPass", "vkEndCommandBuffer",
       "vkQueueSubmit", "vkQueuePresentKHR", "vkQueueWaitIdle" >>

\* the Vulkan operations the current call has issued
VulkanOps == SelectSeq(ops, LAMBDA o : o.op # "mClearValue_update")

\* C7: within every render() call the Vulkan operations are issued in the order
\* acquire (with the fence) -> wait fence -> reset fence -> reset command buffer
\* -> begin recording -> begin render pass on the framebuffer of the acquired
\* image -> bind pipeline -> draw 3 vertices, 1 instance -> end render pass ->
\* end recording -> submit (signalling the semaphore) -> present (waiting on the
\* semaphore) -> wait idle, each exactly once.
C7_FrameOrder ==
    /\ Len(VulkanOps) <= Len(FrameOps)
    /\ \A k \in 1..Len(VulkanOps) : VulkanOps[k].op = FrameOps[k]
    /\ (pc = "ready" /\ frames > 0) => Len(VulkanOps) = Len(FrameOps)
    /\ \A k \in OpsAt("vkAcquireNextImageKHR") : ops[k].arg[1] = hFence
    /\ \A k \in OpsAt("vkCmdBeginRenderPass") :
           \E j \in OpsAt("vkAcquireNextImageKHR") :
               j < k /\ ops[k].arg[1] = hFramebuffer(ops[j].arg[3])
    /\ \A k \in OpsAt("vkCmdDraw") : ops[k].arg[1] = 3 /\ ops[k].arg[2] = 1
    /\ \A k \in OpsAt("vkQueueSubmit") : ops[k].arg[2] = hSemaphore
    /\ \A k \in OpsAt("vkQueuePresentKHR") : ops[k].arg[1] = hSemaphore

C7_Witness ==
    /\ pc = "ready" /\ frames = 1
    /\ Len(VulkanOps) = 13
    /\ \E k \in OpsAt("vkCmdBeginRenderPass") : ops[k].arg[1] = hFramebuffer(1)

AfterFrameEnd ==
    {"vkEndCommandBuffer", "vkQueueSubmit", "vkQueuePresentKHR", "vkQueueWaitIdle"}

\* C8: in every render() call the clear colour is advanced as the last step of
\* the frame, only after the command buffer has been ended and submitted, the
\* image presented and the queue-idle wait returned.
C8_AdvanceLast ==
    \A k \in OpsAt("mClearValue_update") :
        \A name \in AfterFrameEnd : \E j \in OpsAt(name) : j < k

\* C8 (amended): in every render() call the clear colour is advanced exactly
\* once, directly after vkCmdEndRenderPass and before vkEndCommandBuffer, the
\* submit, the present and the queue-idle wait of that call.
C8_AdvanceWhileRecording ==
    /\ \A k \in OpsAt("mClearValue_update") :
           /\ k > 1 /\ ops[k - 1].op = "vkCmdEndRenderPass"
           /\ \A j \in 1..k : ops[j].op \notin AfterFrameEnd
           /\ k < Len(ops) => ops[k + 1].op = "vkEndCommandBuffer"
    /\ (pc = "ready" /\ frames > 0) =>
           /\ Cardinality(OpsAt("mClearValue_update")) = 1
           /\ \A name \in AfterFrameEnd : OpsAt(name) # {}

C8_Witness ==
    /\ pc = "ready" /\ frames = 2
    /\ \E k \in OpsAt("mClearValue_update") : ops[k + 1].op = "vkEndCommandBuffer"

\* C9: if every channel of the clear colour starts in [0,1), every one of the
\* four channels is in [0,1) after any number of render() calls (in hundredths:
\* within 0..99).
C9_ChannelsInRange ==
    \A c \in 1..4 : mClearValue[c] >= 0 /\ mClearValue[c] < 100

\* a channel that started at 0.99 has wrapped to 0 while another advanced to 0.01
C9_Witness ==
    /\ frames = 1 /\ pc = "ready"
    /\ mClearValue[1] = 0 /\ mClearValue[4] = 1

\* C10: the fence is unsignaled, with no signal pending, at every call of
\* vkAcquireNextImageKHR: it is created unsignaled, and within a call the fence
\* signalled by the acquisition is waited for and reset before the next one.
C10_FenceUnsignaledAtAcquire ==
    /\ At("render", "vkAcquireNextImageKHR") => fence = "unsignaled"
    /\ \A k \in OpsAt("vkAcquireNextImageKHR") : ops[k].arg[2] = "unsignaled"
    /\ (pc = "ctor" /\ hFence \in alive) => fence = "unsignaled"
    /\ pc = "ready" => fence = "unsignaled"

C10_Witness ==
    /\ At("render", "vkWaitForFences")
    /\ frames = 1
    /\ fence = "signaled"
    /\ ops[1].arg[2] = "unsignaled"

\* C11: a queued present executes only when the command buffer submitted in its
\* frame has completed and has signaled mSemaphore, and executing it unsignals
\* mSemaphore; vkQueueSubmit signals mSemaphore and always finds it unsignaled
\* with no signal pending; vkQueuePresentKHR waits on that same semaphore.
C11_PresentAfterSubmit ==
    [][ /\ pendingPresents' < pendingPresents =>
              /\ pendingSubmits = 0
              /\ semaphore = "signaled" /\ semaphore' = "unsignaled"
        /\ nSubmit' > nSubmit =>
              /\ semaphore = "unsignaled" /\ pendingSubmits = 0 /\ pendingPresents = 0
              /\ ops'[Len(ops')].arg[2] = hSemaphore
        /\ nPresent' > nPresent =>
              /\ ops'[Len(ops')].arg[1] = hSemaphore
              /\ PresentWaitSemaphores = {hSemaphore}
      ]_vars

\* the second frame has submitted after the first frame's present consumed the
\* signal of the first frame's submit
C11_Witness ==
    /\ frames = 1 /\ nSubmit = 2 /\ nPresent = 1
    /\ pendingPresents = 0 /\ semaphore = "pending"

\* the families of the selected physical device that report VK_QUEUE_GRAPHICS_BIT
GraphicsFamilies == {k \in 0..(Len(env.queueFlags) - 1) : env.queueFlags[k + 1]}

\* the places where the constructor hands a queue family index to Vulkan
QueueFamilyUses ==
    { "vkCreateDevice.queueFamilyIndex", "vkGetDeviceQueue.queueFamilyIndex",
      "vkGetPhysicalDeviceSurfaceSupportKHR.queueFamilyIndex",
      "vkCreateCommandPool.queueFamilyIndex" }

\* the values recorded in uses under the name what
UsesOf(what) == {uses[k].val : k \in {j \in DOMAIN uses : uses[j].what = what}}

\* C12: when some queue family reports the graphics bit, every queue family
\* index the constructor hands to Vulkan (device queue creation, queue
\* retrieval, surface-support check, command pool) is the smallest index of
\* such a family, and a constructed renderer has used it in all four places.
C12_FirstGraphicsFamily ==
    GraphicsFamilies # {} =>
        /\ \A k \in DOMAIN uses :
              uses[k].what \in QueueFamilyUses =>
                  /\ uses[k].val \in GraphicsFamilies
                  /\ \A f \in GraphicsFamilies : uses[k].val <= f
                  /\ uses[k].val = mQueueFamilyIndex
        /\ pc = "ready" => \A u \in QueueFamilyUses : Cardinality(UsesOf(u)) = 1

\* a renderer constructed on a device whose first family has no graphics bit
C12_Witness ==
    /\ pc = "ready" /\ env.queueFlags = <<FALSE, TRUE>>
    /\ \A u \in QueueFamilyUses : UsesOf(u) = {1}

\* C13: the queue family index handed to vkCreateDevice designates a family with
\* the graphics bit, and when no family has it the constructor has stopped
\* before vkCreateDevice: the call is never made and no device exists.
C13_GraphicsFamilyOrFail ==
    /\ UsesOf("vkCreateDevice.queueFamilyIndex") \subseteq GraphicsFamilies
    /\ GraphicsFamilies = {} =>
          /\ hDevice \notin alive
          /\ \A k \in DOMAIN calls : calls[k].fn # "vkCreateDevice"

\* the enumerated surface formats contain VK_FORMAT_R8G8B8A8_UNORM
HasFormat == \E k \in DOMAIN env.formats : env.formats[k] = VK_FORMAT_R8G8B8A8_UNORM

\* the enumerated present modes contain VK_PRESENT_MODE_FIFO_KHR
HasPresentMode ==
    \E k \in DOMAIN env.presentModes : env.presentModes[k] = VK_PRESENT_MODE_FIFO_KHR

\* C14: whenever the swapchain has been created, the image format it was created
\* with is R8G8B8A8_UNORM and its present mode is FIFO, for every enumerated
\* list of formats and of present modes.
C14_FixedFormatAndMode ==
    hSwapchain \in alive =>
        \A info \in UsesOf("vkCreateSwapchainKHR") :
            /\ info.imageFormat = VK_FORMAT_R8G8B8A8_UNORM
            /\ info.presentMode = VK_PRESENT_MODE_FIFO_KHR

\* C15: when the enumerated formats lack R8G8B8A8_UNORM or the enumerated present
\* modes lack FIFO, the constructor never gets as far as vkCreateSwapchainKHR:
\* the process has ended at the assertion that follows the failed search.
C15_MissingStopsBeforeSwapchain ==
    ~(HasFormat /\ HasPresentMode) =>
        /\ UsesOf("vkCreateSwapchainKHR") = {}
        /\ \A k \in DOMAIN calls : calls[k].fn # "vkCreateSwapchainKHR"
        /\ pc = "ctor" => ip <= CHOOSE n \in DOMAIN CtorOrder :
                                    CtorOrder[n] = "vkCreateSwapchainKHR"
        /\ pc \in {"ctor", "aborted"}

\* calls[k] belongs to the last call the constructor made (the one call of
\* vkGetSwapchainImagesKHR is recorded once per image it returns)
NoCallAfter(k) ==
    \A j \in (k + 1)..Len(calls) :
        /\ calls[j].fn = "vkGetSwapchainImagesKHR"
        /\ calls[k].fn = "vkGetSwapchainImagesKHR"

\* C16: every result-returning Vulkan call of the constructor and of render() is
\* checked at once: a call that returned an error is the last call made, and
\* the process has ended.
C16_EveryResultChecked ==
    /\ \A k \in DOMAIN calls :
          calls[k].result = VK_ERROR => NoCallAfter(k) /\ pc = "aborted"
    /\ \A k \in DOMAIN ops :
          ops[k].result = VK_ERROR => k = Len(ops) /\ pc = "aborted"

\* the calls of render() whose result goes through VK_CHECK_ERROR
CheckedOps ==
    { "vkAcquireNextImageKHR", "vkWaitForFences", "vkResetFences",
      "vkBeginCommandBuffer", "vkEndCommandBuffer", "vkQueueSubmit",
      "vkQueuePresentKHR", "vkQueueWaitIdle" }

\* this step made a checked call that reported an error
CheckedCallFailed ==
    \/ /\ Len(calls') > Len(calls)
       /\ calls'[Len(calls')].result = VK_ERROR
    \/ /\ Len(ops') > Len(ops)
       /\ ops'[Len(ops')].op \in CheckedOps
       /\ ops'[Len(ops')].result = VK_ERROR

\* C17: a checked call that reports an error ends the process at that statement;
\* once the process has ended nothing more happens: no later stage or step,
\* no second attempt at the call, no other queue family or device.
C17_FatalAndFinal ==
    [][ /\ pc # "aborted"
        /\ CheckedCallFailed =>
              /\ pc' = "aborted" /\ abortCause' = "vk_error" /\ ip' = ip
              /\ mQueueFamilyIndex' = mQueueFamilyIndex
        /\ abortCause' = "vk_error" /\ abortCause # "vk_error" =>
              /\ pc' = "aborted" /\ ip' = ip
      ]_vars

\* the process has ended at a failed vkQueueSubmit of the second frame
C17_Witness ==
    /\ pc = "aborted" /\ abortCause = "vk_error" /\ frames = 1
    /\ Len(ops) > 0
    /\ ops[Len(ops)].op = "vkQueueSubmit" /\ ops[Len(ops)].result = VK_ERROR

\* the extents the constructor hands to Vulkan outside the swapchain
ExtentUses == {"vkCreateFramebuffer.extent", "viewport.extent", "scissor.extent"}

\* C18: every extent the renderer uses is the one the swapchain was created
\* with, surfaceCapabilities.currentExtent: the size of each framebuffer, the
\* pipeline's viewport and scissor, and the render area of each render pass
\* begun in render().
C18_ExtentsMatchSwapchain ==
    /\ \A info \in UsesOf("vkCreateSwapchainKHR") : info.imageExtent = env.currentExtent
    /\ \A u \in ExtentUses : UsesOf(u) \subseteq {env.currentExtent}
    /\ \A k \in OpsAt("vkCmdBeginRenderPass") : ops[k].arg[3] = env.currentExtent

\* the handles among candidates that the successful call of fn producing h was given
GivenTo(fn, h, candidates) ==
    {a \in candidates :
        \E k \in DOMAIN calls :
            /\ calls[k].fn = fn /\ calls[k].h = h /\ calls[k].result = VK_SUCCESS
            /\ a \in calls[k].args}

\* the swapchain images behind the image views attached to the framebuffer fb
ImagesBehind(fb) ==
    UNION {GivenTo("vkCreateImageView", v, Range(mSwapchainImages)) :
              v \in GivenTo("vkCreateFramebuffer", fb, Range(mSwapchainImageViews))}

\* C19: once the constructor has returned, there are as many image views and
\* framebuffers as swapchain images, image view i was created for image i and
\* framebuffer i was created on image view i; so the framebuffer with which
\* render() begins its render pass is the one bound to the acquired image.
C19_PerImageResources ==
    pc \in {"ready", "render"} =>
        /\ Len(mSwapchainImages) = swapchainImageCount
        /\ Len(mSwapchainImageViews) = swapchainImageCount
        /\ Len(mFramebuffers) = swapchainImageCount
        /\ \A k \in 1..swapchainImageCount :
              /\ GivenTo("vkCreateImageView", mSwapchainImageViews[k],
                         Range(mSwapchainImages)) = {mSwapchainImages[k]}
              /\ GivenTo("vkCreateFramebuffer", mFramebuffers[k],
                         Range(mSwapchainImageViews)) = {mSwapchainImageViews[k]}
              /\ \A j \in 1..swapchainImageCount :
                    j # k => /\ mSwapchainImages[j] # mSwapchainImages[k]
                             /\ mSwapchainImageViews[j] # mSwapchainImageViews[k]
                             /\ mFramebuffers[j] # mFramebuffers[k]
        /\ \A k \in OpsAt("vkCmdBeginRenderPass") :
              ImagesBehind(ops[k].arg[1]) = {mSwapchainImages[swapchainImageIndex + 1]}

\* a render pass begun on the second of two swapchain images
C19_Witness ==
    /\ pc = "render" /\ swapchainImageCount = 2 /\ swapchainImageIndex = 1
    /\ OpsAt("vkCmdBeginRenderPass") # {}
    /\ framebuffer = mFramebuffers[2]

\* the statements of the constructor that end in an assertion
AssertingStatements ==
    { "vkEnumerateInstanceExtensionProperties", "vkEnumerateDeviceExtensionProperties",
      "vkGetPhysicalDeviceSurfaceSupportKHR", "vkGetPhysicalDeviceSurfaceCapabilitiesKHR",
      "vkGetPhysicalDeviceSurfaceFormatsKHR", "vkGetPhysicalDeviceSurfacePresentModesKHR" }

\* some capability the constructor asserts is missing
CapabilityMissing ==
    \/ Cardinality(env.instanceExtensions) # InstanceExtensionsNeeded
    \/ Cardinality(env.deviceExtensions) # DeviceExtensionsNeeded
    \/ ~env.surfaceSupported
    \/ env.supportedCompositeAlpha \cap (0..AlphaLoopLast) = {}
    \/ ~HasFormat
    \/ ~HasPresentMode

\* C20: in a release build no assertion ever stops the constructor: unless the
\* Vulkan call itself reports an error, each asserting statement is followed by
\* the next statement whatever capability is missing, and the swapchain create
\* info is built by indexing the formats (present modes) with the sentinel
\* VK_FORMAT_MAX_ENUM (VK_PRESENT_MODE_MAX_ENUM_KHR) when the search found none.
C20_ReleaseProceeds ==
    [][ build = "release" =>
          /\ abortCause' # "assert"
          /\ (\E label \in AssertingStatements : At("ctor", label))
                /\ abortCause' # "vk_error" =>
                    pc' = "ctor" /\ ip' = ip + 1
          /\ At("ctor", "vkCreateSwapchainKHR") =>
                /\ ~HasFormat => surfaceFormatIndex = VK_FORMAT_MAX_ENUM
                /\ ~HasPresentMode => presentModeIndex = VK_PRESENT_MODE_MAX_ENUM_KHR
      ]_vars

\* a release build that has called vkCreateSwapchainKHR with neither the format
\* nor the present mode available
C20_Witness ==
    /\ build = "release" /\ CapabilityMissing
    /\ ~HasFormat /\ ~HasPresentMode
    /\ surfaceFormatIndex = VK_FORMAT_MAX_ENUM
    /\ presentModeIndex = VK_PRESENT_MODE_MAX_ENUM_KHR
    /\ \E k \in DOMAIN calls : calls[k].fn = "vkCreateSwapchainKHR"

\* the operations of render() by which the CPU resets, begins or records the
\* command buffer
CommandBufferOps ==
    { "vkResetCommandBuffer", "vkBeginCommandBuffer", "vkCmdBeginRenderPass",
      "vkCmdBindPipeline", "vkCmdDraw", "vkCmdEndRenderPass", "vkEndCommandBuffer" }

\* this step of render() issued the operation name
Issues(name) == Len(ops') > Len(ops) /\ ops'[Len(ops')].op = name

\* C21: the CPU never touches what the GPU still uses: the command buffer is
\* reset, begun and recorded only with no submission of it pending, the fence
\* is reset only when it is signaled (never with its signal pending), and
\* vkQueueSubmit signals the semaphore only when no present waits on it.
C21_NoCpuGpuHazard ==
    [][ /\ (\E name \in CommandBufferOps : Issues(name)) =>
              pendingSubmits = 0 /\ cmdState # "pending"
        /\ Issues("vkResetFences") => fence = "signaled"
        /\ Issues("vkQueueSubmit") =>
              pendingPresents = 0 /\ semaphore = "unsignaled"
      ]_vars

\* the second call records its command buffer after the first call's submission
\* was executed
C21_Witness ==
    /\ pc = "render" /\ frames = 1 /\ nSubmit = 1
    /\ cmdState = "recording" /\ pendingSubmits = 0
    /\ OpsAt("vkCmdDraw") # {}

\* C22: in a debug build the swapchain is created only when every image usage
\* flag requested for it (colour attachment and transfer destination) is among
\* the surface's supportedUsageFlags.
C22_RequestedUsageSupported ==
    build = "debug" =>
        \A info \in UsesOf("vkCreateSwapchainKHR") :
            info.imageUsage \subseteq env.supportedUsageFlags

\* C23: with a fair driver and GPU, a render() call in an execution in which no
\* call reports an error eventually returns.
C23_RenderReturns ==
    [](pc # "aborted") => \A f \in 0..(MaxFrames - 1) :
                              (pc = "render" /\ frames = f) ~> (frames = f + 1)

\* the last call allowed by the bound has returned
C23_Witness == pc = "ready" /\ frames = MaxFrames /\ nPresent = MaxFrames

\* what the current call has recorded or submitted so far
RecordedOrSubmitted ==
    {k \in DOMAIN ops : ops[k].op \in CommandBufferOps \cup {"vkQueueSubmit"}}

\* C24: render() has no way out of its two waits: while the acquisition fence is
\* not signaled the call stays at vkWaitForFences, having recorded and submitted
\* nothing, and while the queue is not idle it stays at vkQueueWaitIdle; the
\* only other thing the call can do there is end the process on an error result.
C24_BlockedWhileNotSignalled ==
    [][ /\ At("render", "vkWaitForFences") =>
              /\ RecordedOrSubmitted = {}
              /\ fence # "signaled" =>
                    \/ pc' = pc /\ ip' = ip /\ ops' = ops /\ frames' = frames
                    \/ pc' = "aborted"
        /\ At("render", "vkQueueWaitIdle") /\ ~QueueIdle =>
              \/ pc' = pc /\ ip' = ip /\ ops' = ops /\ frames' = frames
              \/ pc' = "aborted"
      ]_vars

\* the second call waits on a fence whose signal the driver has not delivered
C24_Witness ==
    /\ At("render", "vkWaitForFences") /\ fence = "pending" /\ frames = 1
    /\ RecordedOrSubmitted = {}

\* a step of render() that uses the fence, the command buffer or the semaphore
\* while an earlier use of it is still in progress
HazardStep ==
    \/ Issues("vkAcquireNextImageKHR") /\ fence # "unsignaled"
    \/ Issues("vkResetFences") /\ fence = "pending"
    \/ /\ Issues("vkResetCommandBuffer") \/ Issues("vkBeginCommandBuffer")
       /\ cmdState \in {"recording", "pending"}
    \/ Issues("vkQueueSubmit") /\ semaphore # "unsignaled"

\* C25: render() takes no lock, and calling it from one thread at a time is what
\* keeps it safe: every hazardous step, over all interleavings of two threads,
\* is taken while the other thread is inside render(), and such steps do occur.
C25_HazardNeedsOverlap ==
    [][HazardStep => other.pc = "render"]_vars

\* the running thread has issued an acquisition with the fence still pending
\* from the acquisition of the other thread, which is inside render()
C25_Witness ==
    /\ pc = "render" /\ other.pc = "render"
    /\ \E k \in OpsAt("vkAcquireNextImageKHR") : ops[k].arg[2] = "pending"

\* the clear colour v advanced n times by the loop of render()
RECURSIVE Advanced(_, _)
Advanced(v, n) ==
    IF n = 0 THEN v
    ELSE Advanced([c \in 1..ClearChannels |-> fmodf(v[c] + ClearStep, ClearOne)], n - 1)

\* C26: the render pass of the k-th render() call (frames = k - 1 calls have
\* returned) is begun with the initial clear colour advanced k - 1 times; the
\* advance made inside that call leaves the colour the pass was begun with as
\* it is and makes mClearValue the colour of call k + 1.
C26_ColourOfCall ==
    /\ pc = "render" =>
          /\ \A k \in OpsAt("vkCmdBeginRenderPass") :
                ops[k].arg[2] = Advanced(mClearValue0, frames)
          /\ mClearValue =
                Advanced(mClearValue0,
                         frames + Cardinality(OpsAt("mClearValue_update")))
          /\ Cardinality(OpsAt("mClearValue_update")) <= 1
    /\ pc = "ready" => mClearValue = Advanced(mClearValue0, frames)

\* the second call, after its own advance: its pass was begun with the colour
\* advanced once, and mClearValue already holds the colour of the third call
C26_Witness ==
    /\ pc = "render" /\ frames = 1
    /\ OpsAt("mClearValue_update") # {}
    /\ \E k \in OpsAt("vkCmdBeginRenderPass") :
          /\ ops[k].arg[2] = Advanced(mClearValue0, 1)
          /\ ops[k].arg[2] # mClearValue
    /\ mClearValue = Advanced(mClearValue0, 2)
    /\ mClearValue0[1] = 99

\* the bit positions of the four flags VkCompositeAlphaFlagBitsKHR defines
\* (OPAQUE, PRE_MULTIPLIED, POST_MULTIPLIED, INHERIT)
DefinedAlphaBits == {k \in 0..AlphaLoopLast : k < AlphaLoopLast}

\* C27: (already with assertions enabled) for every supportedCompositeAlpha mask
\* the composite alpha given to vkCreateSwapchainKHR is the lowest-numbered
\* supported one of the four defined flags, and when the mask holds none of
\* the four the constructor stops at the assertion and calls
\* vkCreateSwapchainKHR never.
C27_DefinedCompositeAlpha ==
    build = "debug" =>
        \A info \in UsesOf("vkCreateSwapchainKHR") :
            \E b \in DefinedAlphaBits \cap env.supportedCompositeAlpha :
                /\ info.compositeAlpha = 2 ^ b
                /\ \A c \in DefinedAlphaBits \cap env.supportedCompositeAlpha : b <= c

\* nothing given to the driver or the GPU is still outstanding
NoGpuWorkPending ==
    /\ pendingSubmits = 0 /\ pendingPresents = 0
    /\ cmdState # "pending"
    /\ fence # "pending"
    /\ semaphore # "pending"

\* C28: whenever the destructor runs, after any number of returned render()
\* calls, no submitted command buffer, semaphore signal or wait, fence signal or
\* queued present is outstanding, from its first vkDestroy* call to its last,
\* although the destructor waits for nothing.
C28_DestructorFindsIdle ==
    /\ pc = "dtor" => NoGpuWorkPending
    /\ (pc = "done" /\ destroyed # << >>) => pendingSubmits = 0 /\ pendingPresents = 0
    /\ pc = "dtor" => \A k \in DOMAIN DtorOrder : DtorOrder[k] # "vkDeviceWaitIdle"

\* the destructor at work after two render() calls that presented
C28_Witness ==
    /\ pc = "dtor" /\ frames = MaxFrames /\ nPresent = MaxFrames
    /\ IsDestroyed(hSemaphore) /\ ~IsDestroyed(hDevice)

====
